---- MODULE Spec2Model ----
(***************************************************************************)
(* A model of symcc: Routine construction (symcc/types/routines.py), the   *)
(* assignment nodes (routines.Assignment, ast.Assign) and the C / Fortran  *)
(* code generators (symcc/generators).                                     *)
(*                                                                         *)
(* Symbols are numbered by the rank of their printed name, so that         *)
(* sorting with key=str is sorting by number.  The first NumSyms \div 2    *)
(* symbols have upper-case names, the others lower-case names; symbol s    *)
(* and symbol s + NumSyms \div 2 differ only in letter case.               *)
(*                                                                         *)
(* An expression is a record                                               *)
(*   kind     "Expr" | "Equality" | "ImmutableMatrix"                      *)
(*   lhs_type the class of an Equality's left-hand side                    *)
(*   lhs      the symbol of that left-hand side (Symbol: itself, Indexed:  *)
(*            base.label, MatrixSymbol: itself), 0 when there is none      *)
(*   rhs      the symbols of the right-hand side (of the whole expression  *)
(*            when it is no Equality).  The expressions modelled have no   *)
(*            binders, so the symbols that occur are the free symbols.     *)
(***************************************************************************)
EXTENDS Integers, Sequences, FiniteSets, TLC

\* ---------------------------------------------------------------- bounds
NumSyms == 2
MaxExprs == 2
MaxSeqLen == 2
NumShapes == 2

Symbols == 1..NumSyms
Shapes == 1..NumShapes

\* "No value" markers.
NoError == [type |-> "none", msg |-> "", names |-> <<>>]

\* argument_sequence=None, and an argument sequence that was given
NoSequence == [given |-> FALSE, items |-> <<>>]
Sequence(items) == [given |-> TRUE, items |-> items]

\* ------------------------------------------------------------ sequences
Range(s) == {s[i] : i \in 1..Len(s)}

RECURSIVE SetToSortedSeq(_)
\* sorted(symbols, key=str): the members of a set in ascending name order
SetToSortedSeq(S) ==
  IF S = {} THEN <<>>
  ELSE LET m == CHOOSE x \in S : \A y \in S : x <= y
       IN <<m>> \o SetToSortedSeq(S \ {m})

SeqsUpTo(S, n) == UNION {[1..k -> S] : k \in 0..n}

\* ---------------------------------------------------------- expressions
EqualityLhsTypes == {"Symbol", "Indexed", "MatrixSymbol", "MatrixElement", "Add"}

\* The left-hand sides that carry a symbol of their own in the model.
NamedLhsTypes == {"Symbol", "Indexed", "MatrixSymbol"}

Expressions ==
  [kind : {"Expr", "ImmutableMatrix"}, lhs_type : {"None"}, lhs : {0},
   rhs : SUBSET Symbols]
  \cup [kind : {"Equality"}, lhs_type : NamedLhsTypes, lhs : Symbols,
        rhs : SUBSET Symbols]
  \cup [kind : {"Equality"}, lhs_type : EqualityLhsTypes \ NamedLhsTypes,
        lhs : {0}, rhs : SUBSET Symbols]

\* Basic.free_symbols of one expression and of the Tuple of expressions
free_symbols(e) == e.rhs \cup (IF e.lhs = 0 THEN {} ELSE {e.lhs})

free_symbols_of(exprs) == UNION {free_symbols(exprs[i]) : i \in 1..Len(exprs)}

\* The name 'out_%s' % abs(hash(expr)) of the dummy MatrixSymbol made for a
\* matrix expression: one name per matrix, none of them a user symbol.
RECURSIVE SetCode(_)
SetCode(S) ==
  IF S = {} THEN 0
  ELSE LET m == CHOOSE x \in S : \A y \in S : x >= y
       IN 2 ^ (m - 1) + SetCode(S \ {m})

out_symbol(e) == NumSyms + 1 + SetCode(e.rhs)

\* Mutant of has: the target is never found in the right-hand side
has_never(expr, symbol) == FALSE

\* expr.has(symbol): the symbol occurs in the expression tree
has(expr, symbol) == symbol \in expr

\* ------------------------------------------------------------ arguments
\* dimensions = 0 stands for "no dimensions" ([] or None); an Indexed target
\* has one (0, dim - 1) pair per index (one index in the model), a
\* MatrixSymbol two.
InputArgument(symbol, dimensions) ==
  [name |-> symbol, kind |-> "InputArgument", dimensions |-> dimensions,
   expr |-> {}]

OutputArgument(symbol, expr, dimensions) ==
  [name |-> symbol, kind |-> "OutputArgument", dimensions |-> dimensions,
   expr |-> expr]

InOutArgument(symbol, expr, dimensions) ==
  [name |-> symbol, kind |-> "InOutArgument", dimensions |-> dimensions,
   expr |-> expr]

Result(expr) == [expr |-> expr]

\* An exception: its class, its message and the symbols the message names
ValueError(msg, names) == [type |-> "ValueError", msg |-> msg, names |-> names]
KeyError(names) == [type |-> "KeyError", msg |-> "", names |-> names]
TypeError(msg) == [type |-> "TypeError", msg |-> msg, names |-> <<>>]

\* Mutant of SortArgs: the output arguments stay in the order met
SortArgs_unsorted(args) == args

\* list.sort(key=lambda x: str(x.name)): a stable insertion sort
RECURSIVE InsertArg(_, _)
InsertArg(sorted, a) ==
  IF sorted = <<>> THEN <<a>>
  ELSE IF a.name < Head(sorted).name THEN <<a>> \o sorted
  ELSE <<Head(sorted)>> \o InsertArg(Tail(sorted), a)

RECURSIVE SortArgs(_)
SortArgs(args) ==
  IF args = <<>> THEN <<>>
  ELSE InsertArg(SortArgs(SubSeq(args, 1, Len(args) - 1)), args[Len(args)])

\* --------------------------------------------------- Routine.__init__
\* One pass of "for expr in expressions" (routines.py 139-172) over the
\* state st = (symbols, output_args, return_val, error); the first
\* exception ends the construction.
OutputDims(lhs_type) ==
  IF lhs_type = "Indexed" THEN 1 ELSE IF lhs_type = "MatrixSymbol" THEN 2 ELSE 0

ClassifyExpr(st, e) ==
  IF st.error.type # "none" THEN st
  ELSE IF e.kind = "Equality" THEN
    IF e.lhs_type \notin {"Indexed", "Symbol", "MatrixSymbol"}
    THEN [st EXCEPT !.error = ValueError("Only Indexed, Symbol, or MatrixSymbol can define output arguments.", <<>>)]
    ELSE LET dims == OutputDims(e.lhs_type)
             arg == IF has(e.rhs, e.lhs)
                    THEN InOutArgument(e.lhs, e.rhs, dims)
                    ELSE OutputArgument(e.lhs, e.rhs, dims)
         IN IF e.lhs \notin st.symbols
            THEN [st EXCEPT !.error = KeyError(<<e.lhs>>)]
            ELSE [st EXCEPT !.output_args = Append(@, arg),
                            !.symbols = @ \ {e.lhs}]
  ELSE IF e.kind = "ImmutableMatrix" THEN
    [st EXCEPT !.output_args = Append(@, OutputArgument(out_symbol(e), e.rhs, 2))]
  ELSE [st EXCEPT !.return_val = Append(@, Result(e.rhs))]

\* Mutant of ClassifyAll: the expressions are taken last to first
RECURSIVE ClassifyAll_reversed(_, _)
ClassifyAll_reversed(st, exprs) ==
  IF exprs = <<>> THEN st
  ELSE ClassifyAll_reversed(ClassifyExpr(st, exprs[Len(exprs)]),
                            SubSeq(exprs, 1, Len(exprs) - 1))

RECURSIVE ClassifyAll(_, _)
ClassifyAll(st, exprs) ==
  IF exprs = <<>> THEN st
  ELSE ClassifyAll(ClassifyExpr(st, Head(exprs)), Tail(exprs))

\* routines.py 174-191: the input arguments, in name order, with the
\* dimensions of the array the symbol was met in
InputArguments(symbols, array_symbols) ==
  LET ordered == SetToSortedSeq(symbols)
  IN [i \in 1..Len(ordered) |->
        InputArgument(ordered[i], IF ordered[i] \in array_symbols THEN 1 ELSE 0)]

\* routines.py 198-204: an IndexedBase of the argument sequence (written -s
\* for the base labelled s) is replaced by its label
new_sequence(argument_sequence) ==
  [i \in 1..Len(argument_sequence) |->
     IF argument_sequence[i] < 0 THEN -argument_sequence[i]
     ELSE argument_sequence[i]]

\* Mutant of missing: only the first argument left out is reported
missing_first(arg_list, sequence) ==
  LET all == SelectSeq(arg_list, LAMBDA x : x.name \notin Range(sequence))
  IN IF all = <<>> THEN <<>> ELSE <<Head(all)>>

\* Mutant of missing: no argument is ever found missing
missing_none(arg_list, sequence) == <<>>

\* routines.py 206: the derived arguments the sequence does not name
missing(arg_list, sequence) ==
  SelectSeq(arg_list, LAMBDA x : x.name \notin Range(sequence))

\* routines.py 212: dict([(x.name, x) for x in arg_list]); a later argument
\* of the same name replaces an earlier one
name_arg_dict(arg_list, symbol) ==
  LET at == {i \in 1..Len(arg_list) : arg_list[i].name = symbol}
  IN arg_list[CHOOSE i \in at : \A j \in at : j <= i]

\* Mutant of new_args: the derived order is kept
new_args_derived_order(arg_list, sequence) == arg_list

\* routines.py 213-219
new_args(arg_list, sequence) ==
  [i \in 1..Len(sequence) |->
     IF \E j \in 1..Len(arg_list) : arg_list[j].name = sequence[i]
     THEN name_arg_dict(arg_list, sequence[i])
     ELSE InputArgument(sequence[i], 0)]

\* Mutant of argument_symbols: the loop indices are not taken out
argument_symbols_all(exprs, local_vars) == free_symbols_of(exprs)

\* routines.py 134: symbols = expressions.free_symbols - local_vars
argument_symbols(exprs, local_vars) == free_symbols_of(exprs) \ local_vars

NoRoutine == [arguments |-> <<>>, results |-> <<>>, local_vars |-> {}, built |-> FALSE]

\* Routine.__init__(name, expr, argument_sequence); Idx and Array are the
\* labels of expressions.atoms(Idx) and the keys of array_symbols
RoutineInit(exprs, Idx, Array, argument_sequence) ==
  IF exprs = <<>>
  THEN [error |-> ValueError("No expression given", <<>>), routine |-> NoRoutine]
  ELSE
  LET local_vars == Idx
      symbols == argument_symbols(exprs, local_vars)
      st == ClassifyAll([symbols |-> symbols, output_args |-> <<>>,
                         return_val |-> <<>>, error |-> NoError], exprs)
      arg_list == InputArguments(st.symbols, Array) \o SortArgs(st.output_args)
  IN IF st.error.type # "none" THEN [error |-> st.error, routine |-> NoRoutine]
     ELSE IF ~argument_sequence.given
     THEN [error |-> NoError,
           routine |-> [arguments |-> arg_list, results |-> st.return_val,
                        local_vars |-> local_vars, built |-> TRUE]]
     ELSE LET sequence == new_sequence(argument_sequence.items)
              miss == missing(arg_list, sequence)
          IN IF miss # <<>>
             THEN [error |-> ValueError("Argument list didn't specify",
                                       [i \in 1..Len(miss) |-> miss[i].name]),
                   routine |-> NoRoutine]
             ELSE [error |-> NoError,
                   routine |-> [arguments |-> new_args(arg_list, sequence),
                                results |-> st.return_val,
                                local_vars |-> local_vars, built |-> TRUE]]

\* --------------------------------- Routine.__init__, the array dimensions
\* expressions.atoms(Indexed) is a set of Indexed objects, each written
\* <<label, shape>> (shape s: one index running over s elements); order
\* is the order in which iterating that set yields them, which Python
\* leaves to the hash values of the members.
\* Mutant of array_symbols: the first Indexed met for a label is kept
RECURSIVE array_symbols_first_kept(_)
array_symbols_first_kept(order) ==
  IF order = <<>> THEN [l \in {} |-> 0]
  ELSE [l \in DOMAIN array_symbols_first_kept(Tail(order)) \cup {Head(order)[1]} |->
          IF l = Head(order)[1] THEN Head(order)[2]
          ELSE array_symbols_first_kept(Tail(order))[l]]

\* routines.py 174-176: array_symbols[array.base.label] = array for every
\* member in turn, so a later member replaces an earlier one of its label
RECURSIVE array_symbols(_)
array_symbols(order) ==
  IF order = <<>> THEN [l \in {} |-> 0]
  ELSE [l \in DOMAIN array_symbols(SubSeq(order, 1, Len(order) - 1))
               \cup {order[Len(order)][1]} |->
          IF l = order[Len(order)][1] THEN order[Len(order)][2]
          ELSE array_symbols(SubSeq(order, 1, Len(order) - 1))[l]]

\* routines.py 183-185: one (0, dim - 1) pair for every dim of array.shape
dimensions_of(shape) == <<<<0, shape - 1>>>>

\* routines.py 180-189: the input argument of an array symbol carries the
\* dimensions of the Indexed that array_symbols holds for it
with_dimensions(arguments, arrays) ==
  [i \in DOMAIN arguments |->
     IF arguments[i].kind = "InputArgument" /\ arguments[i].name \in DOMAIN arrays
     THEN [arguments[i] EXCEPT !.dimensions = dimensions_of(arrays[arguments[i].name])]
     ELSE arguments[i]]

\* Routine(name, expr, argument_sequence) with the dimensions of its input
\* arrays, when the Indexed atoms are met in the given order
Routine_dimensioned(built, arrays) ==
  IF built.error.type # "none" THEN built
  ELSE [error |-> NoError,
        routine |-> [built.routine EXCEPT
                       !.arguments = with_dimensions(@, arrays)]]

\* ------------------------------------- Assignment.__new__, Assign.__new__
\* An operand of an assignment: its class and its shape; shape 0 stands
\* for an object without a 'shape' attribute.
ScalarTypes == {"Symbol", "MatrixElement", "Add"}
MatrixTypes == {"MatrixSymbol", "ImmutableMatrix"}

Operands ==
  [type : ScalarTypes, shape : {0}]
  \cup [type : {"Indexed"} \cup MatrixTypes, shape : Shapes]

\* Mutant of assignable: any target is let through
assignable_any(lhs) == TRUE

\* isinstance(lhs, (Symbol, MatrixSymbol, MatrixElement, Indexed))
assignable(lhs) == lhs.type \in {"Symbol", "MatrixSymbol", "MatrixElement", "Indexed"}

\* Mutant of is_mat: an Indexed, which has a shape, counts as a matrix
is_mat_any_shape(x) == x.shape # 0

\* hasattr(x, 'shape') and not isinstance(x, Indexed)
is_mat(x) == x.shape # 0 /\ x.type # "Indexed"

NoNode == [op |-> "none", lhs |-> [type |-> "Symbol", shape |-> 0],
           rhs |-> [type |-> "Symbol", shape |-> 0]]

\* routines.py 63-83
AssignmentNew(lhs, rhs) ==
  IF ~assignable(lhs)
  THEN [error |-> TypeError("Cannot assign to lhs of type"), node |-> NoNode]
  ELSE IF is_mat(lhs)
  THEN IF ~is_mat(rhs)
       THEN [error |-> ValueError("Cannot assign a scalar to a matrix.", <<>>),
             node |-> NoNode]
       ELSE IF lhs.shape # rhs.shape
       THEN [error |-> ValueError("Dimensions of lhs and rhs don't align.", <<>>),
             node |-> NoNode]
       ELSE [error |-> NoError, node |-> [op |-> ":=", lhs |-> lhs, rhs |-> rhs]]
  ELSE IF is_mat(rhs) /\ ~is_mat(lhs)
  THEN [error |-> ValueError("Cannot assign a matrix to a scalar.", <<>>),
        node |-> NoNode]
  ELSE [error |-> NoError, node |-> [op |-> ":=", lhs |-> lhs, rhs |-> rhs]]

\* ast.py 95-115
AssignNew(lhs, rhs) ==
  IF ~assignable(lhs)
  THEN [error |-> TypeError("Cannot assign to lhs of type"), node |-> NoNode]
  ELSE IF is_mat(lhs)
  THEN IF ~is_mat(rhs)
       THEN [error |-> ValueError("Cannot assign a scalar to a matrix.", <<>>),
             node |-> NoNode]
       ELSE IF lhs.shape # rhs.shape
       THEN [error |-> ValueError("Dimensions of lhs and rhs don't align.", <<>>),
             node |-> NoNode]
       ELSE [error |-> NoError, node |-> [op |-> "Assign", lhs |-> lhs, rhs |-> rhs]]
  ELSE IF is_mat(rhs) /\ ~is_mat(lhs)
  THEN [error |-> ValueError("Cannot assign a matrix to a scalar.", <<>>),
        node |-> NoNode]
  ELSE [error |-> NoError, node |-> [op |-> "Assign", lhs |-> lhs, rhs |-> rhs]]

\* ------------------------------------------------------ code generators
\* str(x).lower(): an upper-case symbol and its lower-case twin print alike
lower(s) == IF s <= NumSyms \div 2 THEN s + NumSyms \div 2 ELSE s

\* Result.result_var, Symbol('result_%s' % abs(hash(expr)))
result_var(res) == NumSyms + 1 + 2 ^ NumSyms + SetCode(res.expr)

\* Routine.variables
variables(r) ==
  r.local_vars \cup {r.arguments[i].name : i \in 1..Len(r.arguments)}
  \cup {result_var(r.results[i]) : i \in 1..Len(r.results)}

\* ----------------------------------------------------------- datatypes
\* The symbols created with integer=True: the lower-case ones.  The dummy
\* symbols out_<hash> and result_<hash> carry no assumption.
is_integer(s) == s \in Symbols /\ s > NumSyms \div 2

\* default_datatypes
default_datatypes(key) ==
  IF key = "int" THEN [cname |-> "int", fname |-> "INTEGER*4", pyname |-> "int"]
  ELSE [cname |-> "double", fname |-> "REAL*8", pyname |-> "float"]

\* get_default_datatype of a symbol
get_default_datatype(s) ==
  IF is_integer(s) THEN default_datatypes("int") ELSE default_datatypes("float")

\* get_default_datatype of an expression: the expressions modelled are
\* sums and products of their symbols (matrices of such), integer exactly
\* when every symbol is
get_default_datatype_expr(expr) ==
  IF \A s \in expr : is_integer(s)
  THEN default_datatypes("int") ELSE default_datatypes("float")

\* The datatype an argument is constructed with: Variable.__init__ guesses
\* it from the name, InOutArgument.__init__ from the expression
datatype_of(arg) ==
  IF arg.kind = "InOutArgument" THEN get_default_datatype_expr(arg.expr)
  ELSE get_default_datatype(arg.name)

\* Variable.get_datatype(language): language.upper() picks the entry
get_datatype(arg, language) ==
  IF language \in {"C", "c"} THEN datatype_of(arg).cname
  ELSE IF language \in {"FORTRAN", "fortran", "Fortran"} THEN datatype_of(arg).fname
  ELSE datatype_of(arg).pyname

\* Result.get_datatype: the datatype of Variable(Symbol('result_<hash>')),
\* a symbol without assumptions
Result_get_datatype(res, language) ==
  get_datatype([kind |-> "Result", name |-> result_var(res)], language)

\* ---------------------------------------------------------------- names
\* str(symbol): upper-case names first, then their lower-case twins; the
\* dummy symbols print as out_<n> and result_<n>
UpperNames == <<"X", "Y", "Z", "W">>
LowerNames == <<"x", "y", "z", "w">>

str(s) ==
  IF s <= NumSyms \div 2 THEN UpperNames[s]
  ELSE IF s <= NumSyms THEN LowerNames[s - NumSyms \div 2]
  ELSE IF s <= NumSyms + 2 ^ NumSyms THEN "out_" \o ToString(s - NumSyms - 1)
  ELSE "result_" \o ToString(s - NumSyms - 1 - 2 ^ NumSyms)

\* The name every modelled routine is constructed with
routine_name == "f"

\* -------------------------------------------------------- C prototypes
\* Mutant of type_args: only the arrays are passed by pointer
type_args_arrays_only(r) ==
  [i \in 1..Len(r.arguments) |->
     [type |-> get_datatype(r.arguments[i], "C"),
      name |-> r.arguments[i].name,
      pointer |-> r.arguments[i].dimensions # 0]]

\* ccodegen.py 49-55: (type, name) per argument, the name starred when
\* the argument is passed by pointer
type_args(r) ==
  [i \in 1..Len(r.arguments) |->
     [type |-> get_datatype(r.arguments[i], "C"),
      name |-> r.arguments[i].name,
      pointer |-> r.arguments[i].dimensions # 0
                  \/ r.arguments[i].kind # "InputArgument"]]

\* ", ".join(["%s %s" % t for t in type_args]) as a token sequence
RECURSIVE join_type_args(_)
join_type_args(targs) ==
  IF targs = <<>> THEN <<>>
  ELSE LET t == Head(targs)
           one == <<t.type>> \o (IF t.pointer THEN <<"*">> ELSE <<>>)
                  \o <<str(t.name)>>
       IN IF Len(targs) = 1 THEN one
          ELSE one \o <<",">> \o join_type_args(Tail(targs))

\* "%s %s(%s)" % (ctype, routine.name, arguments) as a token sequence
prototype_text(ctype, targs) ==
  <<ctype, routine_name, "(">> \o join_type_args(targs) \o <<")">>

NoText == [error |-> NoError, form |-> "none", arguments |-> <<>>, text |-> <<>>]

\* ccodegen.py 56-57: the prototype made of the return type and the
\* (type, name) pairs
prototype_of(form, ctype, targs) ==
  [error |-> NoError, form |-> form, arguments |-> targs,
   text |-> prototype_text(ctype, targs)]

\* Mutant of get_prototype: the number of results is not checked
get_prototype_unchecked(r) ==
  prototype_of(IF Len(r.results) >= 1 THEN "typed function" ELSE "void function",
               IF Len(r.results) >= 1 THEN "double" ELSE "void",
               type_args(r))

\* CCodeGen.get_prototype: the return type and, per argument, its type,
\* its name and whether it is passed by pointer
get_prototype(r) ==
  IF Len(r.results) > 1
  THEN [NoText EXCEPT !.error =
          ValueError("C only supports a single or no return value.", <<>>)]
  ELSE IF Len(r.results) = 1
  THEN prototype_of("typed function", Result_get_datatype(r.results[1], "C"),
                    type_args(r))
  ELSE prototype_of("void function", "void", type_args(r))

\* FCodeGen._get_routine_opening
F_get_routine_opening(r) ==
  IF Len(r.results) > 1
  THEN [NoText EXCEPT !.error =
          ValueError("Fortran only supports a single or no return value.", <<>>)]
  ELSE LET args == [i \in 1..Len(r.arguments) |-> str(r.arguments[i].name)]
           head == IF Len(r.results) = 1
                   THEN <<Result_get_datatype(r.results[1], "fortran"), "function">>
                   ELSE <<"subroutine">>
       IN [error |-> NoError,
           form |-> IF Len(r.results) = 1 THEN "typed function" ELSE "subroutine",
           arguments |-> [i \in 1..Len(r.arguments) |->
                            [type |-> get_datatype(r.arguments[i], "fortran"),
                             name |-> r.arguments[i].name, pointer |-> FALSE]],
           text |-> head \o <<routine_name, "(">> \o args \o <<")">>]

\* CCodeGen.dump_c = CodeGen.dump_code: the opening of the routine is its
\* prototype; the body comes from the printer
C_dump_c(r) == get_prototype(r)

\* CCodeGen.dump_h: one prototype per routine
C_dump_h(r) == get_prototype(r)

\* fcodegen.py 173-175: two variables of the routine differ in letter case
\* only
case_collision(r) ==
  Cardinality({lower(x) : x \in variables(r)}) < Cardinality(variables(r))

\* FCodeGen.dump_f95: the letter-case check, then CodeGen.dump_code
F_dump_f95(r) ==
  IF case_collision(r)
  THEN [NoText EXCEPT !.error = ValueError("Fortran ignores case.", <<>>)]
  ELSE F_get_routine_opening(r)

\* FCodeGen.dump_h: get_interface of the routine
F_dump_h(r) == F_get_routine_opening(r)

\* --------------------------------------------------------------- strings
\* A Python string is the sequence of its characters.
MaxStrLen == 2

ascii_lowercase ==
  <<"a", "b", "c", "d", "e", "f", "g", "h", "i", "j", "k", "l", "m",
    "n", "o", "p", "q", "r", "s", "t", "u", "v", "w", "x", "y", "z">>

ascii_uppercase ==
  <<"A", "B", "C", "D", "E", "F", "G", "H", "I", "J", "K", "L", "M",
    "N", "O", "P", "Q", "R", "S", "T", "U", "V", "W", "X", "Y", "Z">>

digits == <<"0", "1", "2", "3", "4", "5", "6", "7", "8", "9">>

\* str.upper, one character at a time
upper_char(c) ==
  IF \E i \in 1..26 : ascii_lowercase[i] = c
  THEN ascii_uppercase[CHOOSE i \in 1..26 : ascii_lowercase[i] = c]
  ELSE c

upper(s) == [i \in 1..Len(s) |-> upper_char(s[i])]

\* str.replace(old, new) for one-character old and new
replace(s, old, new) == [i \in 1..Len(s) |-> IF s[i] = old THEN new ELSE s[i]]

\* The characters a project name or a file prefix is made of in the model:
\* a lower-case letter, an upper-case letter, a digit, a space, a path
\* separator and a hyphen
Alphabet == {"a", "B", "1", " ", "/", "-"}

Strings == SeqsUpTo(Alphabet, MaxStrLen)

\* ---------------------------------------------------------------- files
\* A file's contents is the sequence of the segments written to it; a
\* segment is what one statement of a dump function emits: its kind, the
\* index of the routine it belongs to (0: the file's own) and its text.
Line(seg, routine, text) == [seg |-> seg, routine |-> routine, text |-> text]

Blank == Line("blank", 0, <<>>)

\* CCodeGen._get_header / FCodeGen._get_header: the comment block, which
\* names the project
get_header(project) == <<Line("header", 0, project)>>

\* "if empty: ..." around one blank line
IfEmpty(empty) == IF empty THEN <<Blank>> ELSE <<>>

\* ccodegen.py 153-154
guard_name(project, prefix) ==
  upper(replace(project, " ", "_")) \o <<"_", "_">>
  \o upper(replace(prefix, "/", "_")) \o <<"_", "_", "H">>

\* The result of a dump function: the exception it raised, if any, and
\* what it wrote to f before it returned or raised
Dumped(error, lines) == [error |-> error, lines |-> lines]

\* A dump that goes on after some lines were written
prepend(lines, d) == Dumped(d.error, lines \o d.lines)

\* ccodegen.py 163-165: the prototypes, up to the first routine that
\* get_prototype refuses
RECURSIVE C_prototypes(_, _)
RECURSIVE C_prototypes_from(_, _, _)
C_prototypes_from(p, routines, i) ==
  IF p.error.type # "none" THEN Dumped(p.error, <<>>)
  ELSE prepend(<<Line("prototype", i, p.text \o <<";">>)>>,
               C_prototypes(routines, i + 1))

C_prototypes(routines, i) ==
  IF i > Len(routines) THEN Dumped(NoError, <<>>)
  ELSE C_prototypes_from(get_prototype(routines[i]), routines, i)

\* ccodegen.py 151-171 around the prototypes: the header, the include
\* guard and the closing #endif, which is not reached when a routine was
\* refused
C_header_file(project, guard, protos, header, empty) ==
  prepend((IF header THEN get_header(project) \o <<Blank>> ELSE <<>>)
          \o IfEmpty(empty)
          \o <<Line("ifndef", 0, guard), Line("define", 0, guard)>>
          \o IfEmpty(empty),
          IF protos.error.type # "none" THEN protos
          ELSE Dumped(NoError, protos.lines \o IfEmpty(empty)
                               \o <<Line("endif", 0, <<>>)>> \o IfEmpty(empty)))

\* CCodeGen.dump_h(routines, f, prefix, header, empty); print() writes at
\* once, so what precedes a refused routine is in f when the error is raised
CCodeGen_dump_h(project, routines, prefix, header, empty) ==
  C_header_file(project, guard_name(project, prefix), C_prototypes(routines, 1),
                header, empty)

\* Routine.result_variables: the output and in-out arguments, then the
\* results
result_variables(r) ==
  SelectSeq(r.arguments, LAMBDA a : a.kind \in {"OutputArgument", "InOutArgument"})
  \o [i \in 1..Len(r.results) |->
        [name |-> result_var(r.results[i]), kind |-> "Result", dimensions |-> 0,
         expr |-> r.results[i].expr]]

\* A generator: its class (by the language it is registered under) and
\* the project it was constructed with
CodeGen(language, project) == [language |-> language, project |-> project]

\* _preprocessor_statements
preprocessor_statements(gen) ==
  IF gen.language = "C" THEN <<Line("preprocessor", 0, <<"#include <math.h>">>)>>
  ELSE <<>>

\* _get_routine_opening: the C prototype between "static inline" and "{",
\* the Fortran signature followed by "implicit none"
opening_of(language, text, i) ==
  Dumped(text.error,
         IF language = "C"
         THEN <<Line("opening", i, <<"static", "inline">> \o text.text \o <<"{">>)>>
         ELSE <<Line("opening", i, text.text),
                Line("opening", i, <<"implicit none">>)>>)

get_routine_opening(gen, r, i) ==
  IF gen.language = "C" THEN opening_of("C", get_prototype(r), i)
  ELSE opening_of("F95", F_get_routine_opening(r), i)

\* fcodegen.py 77-82
intent(arg) ==
  IF arg.kind = "InputArgument" THEN "intent(in)"
  ELSE IF arg.kind = "InOutArgument" THEN "intent(inout)" ELSE "intent(out)"

\* Mutant of declare_arguments: the declarations keep the argument order
declare_arguments_in_order(gen, r, i) ==
  IF gen.language = "C" THEN <<>>
  ELSE [k \in 1..Len(r.arguments) |->
          Line("arguments", i,
               <<get_datatype(r.arguments[k], "fortran"), intent(r.arguments[k])>>
               \o (IF r.arguments[k].dimensions # 0 THEN <<"dimension">> ELSE <<>>)
               \o <<str(r.arguments[k].name)>>)]

\* _declare_arguments: none in C; in Fortran one declaration per argument,
\* the scalars before the arrays
declare_arguments(gen, r, i) ==
  IF gen.language = "C" THEN <<>>
  ELSE LET decl(a) == Line("arguments", i,
                           <<get_datatype(a, "fortran"), intent(a)>>
                           \o (IF a.dimensions # 0 THEN <<"dimension">> ELSE <<>>)
                           \o <<str(a.name)>>)
           scalar_list == SelectSeq(r.arguments, LAMBDA a : a.dimensions = 0)
           array_list == SelectSeq(r.arguments, LAMBDA a : a.dimensions # 0)
       IN [k \in 1..Len(scalar_list) |-> decl(scalar_list[k])]
          \o [k \in 1..Len(array_list) |-> decl(array_list[k])]

\* _declare_locals: none in C; in Fortran the loop indices in name order
declare_locals(gen, r, i) ==
  IF gen.language = "C" THEN <<>>
  ELSE LET ordered == SetToSortedSeq(r.local_vars)
       IN [k \in 1..Len(ordered) |->
             Line("locals", i, <<get_default_datatype(ordered[k]).fname,
                                 str(ordered[k])>>)]

\* _call_printer: one statement per result variable, named here by the
\* target it assigns; C declares <name>_result for a Result and returns it
RECURSIVE Flatten(_)
Flatten(seqs) ==
  IF seqs = <<>> THEN <<>> ELSE Head(seqs) \o Flatten(Tail(seqs))

call_printer(gen, r, i) ==
  LET rv == result_variables(r)
      one(v) ==
        IF gen.language = "C"
        THEN IF v.kind = "Result"
             THEN <<Line("body", i, <<"double", routine_name \o "_result">>),
                    Line("body", i, <<routine_name \o "_result", "=">>)>>
             ELSE <<Line("body", i, <<str(v.name), "=">>)>>
        ELSE IF v.kind = "Result"
             THEN <<Line("body", i, <<routine_name, "=">>)>>
             ELSE <<Line("body", i, <<str(v.name), "=">>)>>
  IN Flatten([k \in 1..Len(rv) |-> one(rv[k])])
     \o (IF gen.language = "C" /\ r.results # <<>>
         THEN <<Line("body", i, <<"return", routine_name \o "_result">>)>>
         ELSE <<>>)

\* _get_routine_ending
get_routine_ending(gen, r, i) ==
  IF gen.language = "C" THEN <<Line("ending", i, <<"}">>)>>
  ELSE IF Len(r.results) = 1 THEN <<Line("ending", i, <<"end function">>)>>
  ELSE <<Line("ending", i, <<"end subroutine">>)>>

\* _indent_code: the printers' indent_code re-indents each line and keeps
\* the lines and their order, so the segments are what they were
indent_code(lines) == [k \in 1..Len(lines) |-> lines[k]]

\* Mutant of routine_code: the body is emitted before the declarations
routine_code_body_first(gen, r, i, empty, opening) ==
  IfEmpty(empty) \o opening
  \o IfEmpty(empty) \o call_printer(gen, r, i)
  \o declare_arguments(gen, r, i) \o declare_locals(gen, r, i)
  \o IfEmpty(empty) \o get_routine_ending(gen, r, i)

\* codegen.py 91-101: one pass of "for routine in routines", given the
\* lines _get_routine_opening returned
routine_code(gen, r, i, empty, opening) ==
  IfEmpty(empty) \o opening
  \o declare_arguments(gen, r, i) \o declare_locals(gen, r, i)
  \o IfEmpty(empty) \o call_printer(gen, r, i)
  \o IfEmpty(empty) \o get_routine_ending(gen, r, i)

\* codegen.py 90-101: the loop, ended by the first routine whose opening
\* is refused
RECURSIVE routines_code(_, _, _, _)
RECURSIVE routines_code_from(_, _, _, _, _)
routines_code_from(opening, gen, routines, i, empty) ==
  IF opening.error.type # "none" THEN Dumped(opening.error, <<>>)
  ELSE prepend(routine_code(gen, routines[i], i, empty, opening.lines),
               routines_code(gen, routines, i + 1, empty))

routines_code(gen, routines, i, empty) ==
  IF i > Len(routines) THEN Dumped(NoError, <<>>)
  ELSE routines_code_from(get_routine_opening(gen, routines[i], i), gen,
                          routines, i, empty)

\* codegen.py 103-109: indent, put the header first, write
code_file(gen, body, header) ==
  IF body.error.type # "none" THEN Dumped(body.error, <<>>)
  ELSE Dumped(NoError,
              (IF header THEN get_header(gen.project) ELSE <<>>)
              \o indent_code(preprocessor_statements(gen) \o body.lines))

\* CodeGen.dump_code(routines, f, prefix, header, empty): the lines are
\* collected in a list and written with one f.write at the very end, so
\* nothing is in f when a routine is refused
dump_code(gen, routines, prefix, header, empty) ==
  code_file(gen, routines_code(gen, routines, 1, empty), header)

\* CCodeGen.dump_c
CCodeGen_dump_c(gen, routines, prefix, header, empty) ==
  dump_code(gen, routines, prefix, header, empty)

\* FCodeGen.dump_f95: every routine's variables are checked for names that
\* differ in letter case only, then dump_code
FCodeGen_dump_f95(gen, routines, prefix, header, empty) ==
  IF \E i \in 1..Len(routines) : case_collision(routines[i])
  THEN Dumped(ValueError("Fortran ignores case.", <<>>), <<>>)
  ELSE dump_code(gen, routines, prefix, header, empty)

\* FCodeGen.get_interface
interface_of(opening, declarations, ending, i) ==
  Dumped(opening.error,
         <<Line("interface", i, <<"interface">>)>> \o opening.lines
         \o declarations \o ending
         \o <<Line("interface", i, <<"end interface">>)>>)

get_interface(gen, r, i) ==
  interface_of(get_routine_opening(gen, r, i), declare_arguments(gen, r, i),
               get_routine_ending(gen, r, i), i)

\* fcodegen.py 210-212: each interface is written as soon as it is made
RECURSIVE F_interfaces(_, _, _)
RECURSIVE F_interfaces_from(_, _, _, _)
F_interfaces_from(p, gen, routines, i) ==
  IF p.error.type # "none" THEN Dumped(p.error, <<>>)
  ELSE prepend(p.lines, F_interfaces(gen, routines, i + 1))

F_interfaces(gen, routines, i) ==
  IF i > Len(routines) THEN Dumped(NoError, <<>>)
  ELSE F_interfaces_from(get_interface(gen, routines[i], i), gen, routines, i)

\* fcodegen.py 205-214 around the interfaces
F_header_file(gen, faces, header, empty) ==
  prepend((IF header THEN get_header(gen.project) \o <<Blank>> ELSE <<>>)
          \o IfEmpty(empty),
          IF faces.error.type # "none" THEN faces
          ELSE Dumped(NoError, faces.lines \o IfEmpty(empty)))

\* FCodeGen.dump_h
FCodeGen_dump_h(gen, routines, prefix, header, empty) ==
  F_header_file(gen, F_interfaces(gen, routines, 1), header, empty)

\* --------------------------------------------------------- CodeGen.write
\* Mutant of dump_fns: the interface is dumped before the implementation
dump_fns_interface_first(gen) ==
  IF gen.language = "C" THEN <<"dump_h", "dump_c">> ELSE <<"dump_h", "dump_f95">>

\* dump_fns, and the extension attribute of each dump function
dump_fns(gen) ==
  IF gen.language = "C" THEN <<"dump_c", "dump_h">> ELSE <<"dump_f95", "dump_h">>

extension(gen, fn) ==
  IF fn = "dump_h" THEN <<"h">>
  ELSE IF gen.language = "C" THEN <<"c">> ELSE <<"f", "9", "0">>

\* dump_fn(self, routines, f, prefix, header, empty)
dump_fn(gen, fn, routines, prefix, header, empty) ==
  IF fn = "dump_c" THEN CCodeGen_dump_c(gen, routines, prefix, header, empty)
  ELSE IF fn = "dump_f95" THEN FCodeGen_dump_f95(gen, routines, prefix, header, empty)
  ELSE IF gen.language = "C"
  THEN CCodeGen_dump_h(gen.project, routines, prefix, header, empty)
  ELSE FCodeGen_dump_h(gen, routines, prefix, header, empty)

\* "%s.%s" % (prefix, dump_fn.extension)
filename_of(gen, fn, prefix) == prefix \o <<".">> \o extension(gen, fn)

\* The file system: the files that exist, each with its contents
NoFiles == [name \in {} |-> <<>>]

\* open(filename, "w") followed by the writes: the file is created or
\* truncated, then holds what was written
open_w(fs, name, lines) ==
  [n \in DOMAIN fs \cup {name} |-> IF n = name THEN lines ELSE fs[n]]

\* write returns None with to_files, the list of pairs without
NoneReturned == [given |-> FALSE, items |-> <<>>]

\* codegen.py 50-52 and 56-59: the file is opened, which creates or
\* truncates it, before the dump function runs; a pair is appended only
\* after the dump function returned
dumped_to(st, name, d, to_files, fn) ==
  [error |-> d.error,
   files |-> IF to_files THEN open_w(st.files, name, d.lines) ELSE st.files,
   items |-> IF ~to_files /\ d.error.type = "none"
             THEN Append(st.items, [filename |-> name, contents |-> d.lines])
             ELSE st.items,
   dump_calls |-> Append(st.dump_calls, fn)]

\* codegen.py 49-52 and 55-59: one pass of "for dump_fn in self.dump_fns";
\* an exception ends the loop
write_step(gen, st, fn, routines, prefix, to_files, header, empty) ==
  IF st.error.type # "none" THEN st
  ELSE dumped_to(st, filename_of(gen, fn, prefix),
                 dump_fn(gen, fn, routines, prefix, header, empty), to_files, fn)

RECURSIVE write_loop(_, _, _, _, _, _, _, _)
write_loop(gen, st, fns, routines, prefix, to_files, header, empty) ==
  IF fns = <<>> THEN st
  ELSE write_loop(gen,
                  write_step(gen, st, Head(fns), routines, prefix, to_files,
                             header, empty),
                  Tail(fns), routines, prefix, to_files, header, empty)

\* What write leaves and returns
written(st, to_files) ==
  [error |-> st.error,
   files |-> st.files,
   returned |-> IF to_files \/ st.error.type # "none" THEN NoneReturned
                ELSE [given |-> TRUE, items |-> st.items],
   dump_calls |-> st.dump_calls]

\* CodeGen.write(routines, prefix, to_files, header, empty) on the file
\* system fs
write(gen, fs, routines, prefix, to_files, header, empty) ==
  written(write_loop(gen,
                     [error |-> NoError, files |-> fs, items |-> <<>>,
                      dump_calls |-> <<>>],
                     dump_fns(gen), routines, prefix, to_files, header, empty),
          to_files)

\* ------------------------------------------------- the generator registry
\* The names register_generator and get_code_generator are called with
Languages == {<<"C">>, <<"c">>, <<"F", "9", "5">>, <<"f", "9", "5">>, <<"f", "9">>}

\* The generator classes: a factory is called with the project
Factories == {"CCodeGen", "FCodeGen"}

Projects == {<<"p">>, <<"q">>}

\* Mutant of register_generator: the name is stored as it was given
register_generator_as_given(registry, language, generator) ==
  [k \in DOMAIN registry \cup {language} |->
     IF k = language THEN generator ELSE registry[k]]

\* register_generator(language, generator)
register_generator(registry, language, generator) ==
  [k \in DOMAIN registry \cup {upper(language)} |->
     IF k = upper(language) THEN generator ELSE registry[k]]

\* GENERATORS after the generator modules were imported
ImportedGenerators ==
  register_generator(register_generator([k \in {} |-> ""], <<"C">>, "CCodeGen"),
                     <<"F", "9", "5">>, "FCodeGen")

NoGenerator == [class |-> "none", project |-> <<>>]

\* get_code_generator(language, project)
get_code_generator(registry, language, project) ==
  IF upper(language) \notin DOMAIN registry
  THEN [error |-> ValueError("Language is not supported.", <<>>),
        generator |-> NoGenerator]
  ELSE [error |-> NoError,
        generator |-> [class |-> registry[upper(language)], project |-> project]]

\* ------------------------------------------------------------ wrappers
\* The wrapper classes, each with the generator it is constructed with in
\* symcc.utilities
Wrappers == {"DummyWrapper", "F2PyCodeWrapper", "UfuncifyCodeWrapper"}

generator_of(wrapper) ==
  IF wrapper = "UfuncifyCodeWrapper" THEN CodeGen("C", <<"ufuncify">>)
  ELSE CodeGen("F95", <<"autowrap">>)

\* Mutant of filename: the counter is left out of the name
filename_uncounted(counter) == "wrapped_code"

\* CodeWrapper.filename and CodeWrapper.module_name at a counter value
filename(counter) == "wrapped_code_" \o ToString(counter)

module_name(counter) == "wrapper_module_" \o ToString(counter)

\* An exception of the wrappers: CodeWrapError carries the command line
\* and the captured output in its message
CodeWrapError(cmd, output) ==
  [type |-> "CodeWrapError", msg |-> "Error while executing command",
   names |-> cmd \o output]

OSError == [type |-> "OSError", msg |-> "", names |-> <<>>]
ImportError == [type |-> "ImportError", msg |-> "", names |-> <<>>]
AttributeError == [type |-> "AttributeError", msg |-> "", names |-> <<>>]

\* One thing wrap_code did: the operation, the name it was done with and
\* (for a build) the command line
Event(op, name, detail) == [op |-> op, name |-> name, detail |-> detail]

\* What a step of the try block leaves: the exception raised, the files
\* of the working directory, what was done
Step(error, files, events) == [error |-> error, files |-> files, events |-> events]

\* Mutant of DummyWrapper_args: only the input arguments are listed
DummyWrapper_args_inputs_only(r) ==
  [i \in DOMAIN SelectSeq(r.arguments, LAMBDA a : a.kind = "InputArgument") |->
     str(SelectSeq(r.arguments, LAMBDA a : a.kind = "InputArgument")[i].name)]

\* codewrapper.py 110-111, 122: args, the names of the arguments that are
\* not instances of OutputArgument
DummyWrapper_args(r) ==
  [i \in DOMAIN SelectSeq(r.arguments, LAMBDA a : a.kind # "OutputArgument") |->
     str(SelectSeq(r.arguments, LAMBDA a : a.kind # "OutputArgument")[i].name)]

\* codewrapper.py 112-117, 123: retvals, 'nameless' for a Result and the
\* result variable for an argument
DummyWrapper_retvals(r) ==
  [i \in DOMAIN result_variables(r) |->
     IF result_variables(r)[i].kind = "Result" THEN "nameless"
     ELSE str(result_variables(r)[i].name)]

\* DummyWrapper.template filled in: the module defines the function and
\* sets its args and returns attributes
DummyWrapper_template(r, counter) ==
  <<Line("module", 1, <<module_name(counter)>>),
    Line("args", 1, DummyWrapper_args(r)),
    Line("returns", 1, DummyWrapper_retvals(r))>>

\* CodeWrapper._generate_code / DummyWrapper._generate_code; routines is
\* the helpers list after routines.append(main_routine).  A file name is
\* written as the sequence of its parts.
generate_code(wrapper, fs, routines, counter, filepath_given) ==
  IF wrapper = "DummyWrapper"
  THEN Step(NoError,
            open_w(fs, <<module_name(counter), ".", "py">>,
                   DummyWrapper_template(routines[Len(routines)], counter)),
            <<Event("generate", module_name(counter), <<>>)>>)
  ELSE LET w == write(generator_of(wrapper), fs, routines, <<filename(counter)>>,
                      TRUE, filepath_given, filepath_given)
       IN Step(w.error, w.files, <<Event("generate", filename(counter), <<>>)>>)

\* UfuncifyCodeWrapper._partition_args: the first argument it refuses
partition_args(args) ==
  LET refused == {i \in 1..Len(args) :
                    \/ args[i].kind = "InOutArgument"
                    \/ /\ args[i].kind = "OutputArgument"
                       /\ \E j \in 1..(i - 1) : args[j].kind = "OutputArgument"}
      first == CHOOSE i \in refused : \A j \in refused : i <= j
  IN IF refused = {} THEN NoError
     ELSE IF args[first].kind = "InOutArgument"
     THEN ValueError("Ufuncify doesn't support InOutArguments", <<>>)
     ELSE ValueError("Ufuncify doesn't support multiple OutputArguments", <<>>)

\* open(name, 'a') followed by the writes
open_a(fs, name, lines) ==
  [n \in DOMAIN fs \cup {name} |->
     IF n = name THEN (IF n \in DOMAIN fs THEN fs[n] ELSE <<>>) \o lines
     ELSE fs[n]]

\* _prepare_files: nothing for DummyWrapper and F2PyCodeWrapper; the ufunc
\* wrapper appended to <filename>.c and setup.py for UfuncifyCodeWrapper
prepare_files(wrapper, fs, routine, counter) ==
  IF wrapper # "UfuncifyCodeWrapper" THEN Step(NoError, fs, <<>>)
  ELSE LET codefilename == <<filename(counter), ".", "c">>
           refused == partition_args(routine.arguments)
       IN IF refused.type # "none"
          THEN Step(refused, open_a(fs, codefilename, <<>>),
                    <<Event("prepare", filename(counter), <<>>)>>)
          ELSE Step(NoError,
                    open_w(open_a(fs, codefilename,
                                  <<Line("ufunc", 1, <<module_name(counter)>>)>>),
                           <<"setup", ".", "py">>,
                           <<Line("setup", 0, <<module_name(counter),
                                                filename(counter)>>)>>),
                    <<Event("prepare", filename(counter), <<module_name(counter)>>)>>)

\* F2PyCodeWrapper.command / UfuncifyCodeWrapper.command
command(wrapper, counter) ==
  IF wrapper = "F2PyCodeWrapper"
  THEN <<"python", "-c", "import numpy.f2py as f2py2e;f2py2e.main()",
         "-c", "-m", module_name(counter),
         filename(counter) \o "." \o "f90">>
  ELSE <<"python", "setup.py", "build_ext", "--inplace">>

\* Mutant of process_files: the caller's flags are left off the command
process_files_no_flags(wrapper, fs, counter, flags, status, output) ==
  IF wrapper = "DummyWrapper" THEN Step(NoError, fs, <<>>)
  ELSE LET cmd == command(wrapper, counter)
       IN IF status # 0
          THEN Step(CodeWrapError(cmd, output), fs,
                    <<Event("build", module_name(counter), cmd)>>)
          ELSE Step(NoError,
                    open_w(fs, <<module_name(counter), ".", "so">>,
                           <<Line("module", 1, <<module_name(counter)>>)>>),
                    <<Event("build", module_name(counter), cmd)>>)

\* CodeWrapper._process_files / DummyWrapper._process_files: the command,
\* extended by the flags, is run once; status and output are what the
\* external build gave
process_files(wrapper, fs, counter, flags, status, output) ==
  IF wrapper = "DummyWrapper" THEN Step(NoError, fs, <<>>)
  ELSE LET cmd == command(wrapper, counter) \o flags
       IN IF status # 0
          THEN Step(CodeWrapError(cmd, output), fs,
                    <<Event("build", module_name(counter), cmd)>>)
          ELSE Step(NoError,
                    open_w(fs, <<module_name(counter), ".", "so">>,
                           <<Line("module", 1, <<module_name(counter)>>)>>),
                    <<Event("build", module_name(counter), cmd)>>)

\* mod = __import__(self.module_name)
import_module(fs, counter, fate) ==
  IF fate = "load"
     \/ (<<module_name(counter), ".", "py">> \notin DOMAIN fs
         /\ <<module_name(counter), ".", "so">> \notin DOMAIN fs)
  THEN Step(ImportError, fs, <<Event("import", module_name(counter), <<>>)>>)
  ELSE Step(NoError, fs, <<Event("import", module_name(counter), <<>>)>>)

\* A step of the try block runs only when no earlier step raised
Then(before, after) ==
  IF before.error.type # "none" THEN before
  ELSE Step(after.error, after.files, before.events \o after.events)

\* codewrapper.py 67-69 after self._generate_code
prepared_after(generated, wrapper, routine, counter) ==
  Then(generated, prepare_files(wrapper, generated.files, routine, counter))

\* Mutant of processed_after: the build is run whatever came before
processed_after_regardless(prepared, wrapper, counter, flags, status, output) ==
  Step(IF prepared.error.type # "none" THEN prepared.error
       ELSE process_files(wrapper, prepared.files, counter, flags, status, output).error,
       process_files(wrapper, prepared.files, counter, flags, status, output).files,
       prepared.events
       \o process_files(wrapper, prepared.files, counter, flags, status, output).events)

processed_after(prepared, wrapper, counter, flags, status, output) ==
  Then(prepared,
       process_files(wrapper, prepared.files, counter, flags, status, output))

imported_after(processed, counter, fate) ==
  Then(processed, import_module(processed.files, counter, fate))

\* codewrapper.py 64-69: the body of the try block in the working
\* directory with files fs
try_block(wrapper, fs, routines, routine, counter, filepath_given, flags, fate, status, output) ==
  imported_after(
    processed_after(
      prepared_after(
        generate_code(wrapper, fs, routines, counter, filepath_given),
        wrapper, routine, counter),
      wrapper, counter, flags, status, output),
    counter, fate)

\* list.remove(x): the first occurrence is taken out
RECURSIVE remove(_, _)
remove(seq, x) ==
  IF seq = <<>> THEN <<>>
  ELSE IF Head(seq) = x THEN Tail(seq)
  ELSE <<Head(seq)>> \o remove(Tail(seq), x)

\* The directories: each one that exists, with its files
mkdir(dirs, d) ==
  [n \in DOMAIN dirs \cup {d} |-> IF n \in DOMAIN dirs THEN dirs[n] ELSE NoFiles]

put(dirs, d, fs) == [n \in DOMAIN dirs |-> IF n = d THEN fs ELSE dirs[n]]

rmtree(dirs, d) == [n \in DOMAIN dirs \ {d} |-> dirs[n]]

\* wrap_code called without a filepath / helpers argument
NoFilepath == ""

NoHelpers == [given |-> FALSE, items |-> <<>>]

\* Mutant of counter_after: a failed attempt does not count
counter_after_success_only(counter, error) ==
  IF error.type = "none" THEN counter + 1 ELSE counter

\* codewrapper.py 72: CodeWrapper._module_counter += 1 in the finally block
counter_after(counter, error) == counter + 1

\* Mutant of cleanup: the temporary directory is removed on success only
cleanup_on_success(dirs, workdir, filepath, error) ==
  IF filepath = NoFilepath /\ error.type = "none" THEN rmtree(dirs, workdir) ELSE dirs

\* codewrapper.py 74-75: if not self.filepath: shutil.rmtree(workdir)
cleanup(dirs, workdir, filepath, error) ==
  IF filepath = NoFilepath THEN rmtree(dirs, workdir) ELSE dirs

\* The routines _generate_code emits: the helpers list after
\* routines.append(main_routine); DummyWrapper emits the main routine only
emitted(wrapper, routine, helpers, default_helpers) ==
  IF wrapper = "DummyWrapper" THEN <<routine>>
  ELSE (IF helpers.given THEN helpers.items ELSE default_helpers) \o <<routine>>

\* A wrap_code call: what it was called with and what it did
Call(wrapper, filepath, flags, env, counter, workdir, routines, error, events) ==
  [wrapper |-> wrapper, filepath |-> filepath, flags |-> flags, env |-> env,
   counter |-> counter, workdir |-> workdir, routines |-> routines,
   error |-> error, returned |-> error.type = "none", events |-> events]

\* The environment's part of a call
Env(fate, status, output) == [fate |-> fate, status |-> status, output |-> output]

\* codewrapper.py 70-77: the finally block and the return, after the try
\* block left tried in the working directory
finally_block(st, wrapper, filepath, flags, helpers, routines, workdir, made, tried, env) ==
  [state |-> [module_counter |-> counter_after(st.module_counter, tried.error),
              dirs |-> cleanup(put(made, workdir, tried.files), workdir,
                               filepath, tried.error),
              cwd |-> st.cwd,
              sys_path |-> remove(Append(st.sys_path, workdir), workdir),
              default_helpers |-> IF helpers.given \/ wrapper = "DummyWrapper"
                                  THEN st.default_helpers ELSE routines,
              tmp_count |-> IF filepath = NoFilepath THEN st.tmp_count + 1
                            ELSE st.tmp_count],
   call |-> Call(wrapper, filepath, flags, env, st.module_counter, workdir,
                 routines,
                 IF tried.error.type # "none" THEN tried.error
                 ELSE IF env.fate = "lookup" THEN AttributeError ELSE NoError,
                 (IF filepath = NoFilepath
                  THEN <<Event("mkdtemp", workdir, <<>>)>> ELSE <<>>)
                 \o tried.events
                 \o <<Event("counter",
                            ToString(counter_after(st.module_counter, tried.error)),
                            <<>>)>>
                 \o (IF filepath = NoFilepath
                     THEN <<Event("rmtree", workdir, <<>>)>> ELSE <<>>)
                 \o (IF tried.error.type = "none"
                     THEN <<Event("lookup", routine_name, <<>>)>> ELSE <<>>))]

\* codewrapper.py 59-69 once the working directory is known
wrap_in(st, wrapper, filepath, flags, routine, helpers, routines, workdir, made, fate, status, output) ==
  finally_block(st, wrapper, filepath, flags, helpers, routines, workdir, made,
                try_block(wrapper, made[workdir], routines, routine,
                          st.module_counter, filepath # NoFilepath, flags,
                          fate, status, output),
                Env(fate, status, output))

\* CodeWrapper.wrap_code(routine, helpers) of a wrapper constructed with
\* (generator, filepath, flags), in the process state st; fate, status and
\* output are the environment's part: whether setting up the working
\* directory, loading the module or looking up the function fails, and
\* what the build command exits with and prints
wrap_code(st, wrapper, filepath, flags, routine, helpers, fate, status, output) ==
  IF fate = "setup"
  THEN [state |-> st,
        call |-> Call(wrapper, filepath, flags, Env(fate, status, output),
                      st.module_counter, "", <<>>, OSError, <<>>)]
  ELSE IF filepath # NoFilepath
  THEN wrap_in(st, wrapper, filepath, flags, routine, helpers,
               emitted(wrapper, routine, helpers, st.default_helpers),
               filepath, mkdir(st.dirs, filepath), fate, status, output)
  ELSE wrap_in(st, wrapper, filepath, flags, routine, helpers,
               emitted(wrapper, routine, helpers, st.default_helpers),
               "tmp" \o ToString(st.tmp_count + 1),
               mkdir(st.dirs, "tmp" \o ToString(st.tmp_count + 1)),
               fate, status, output)

\* ------------------------------------------------------ symcc.types.ast
\* str.lower, one character at a time
lower_char(c) ==
  IF \E i \in 1..26 : ascii_uppercase[i] = c
  THEN ascii_lowercase[CHOOSE i \in 1..26 : ascii_uppercase[i] = c]
  ELSE c

str_lower(s) == [i \in 1..Len(s) |-> lower_char(s[i])]

\* ast.py 160-164 and 315-319: the singletons by their keys
op_registry ==
  <<"+">> :> "AddOp" @@ <<"-">> :> "SubOp" @@ <<"*">> :> "MulOp"
  @@ <<"/">> :> "DivOp" @@ <<"%">> :> "ModOp"

dtype_registry ==
  <<"b", "o", "o", "l">> :> "NativeBool"
  @@ <<"i", "n", "t">> :> "NativeInteger"
  @@ <<"f", "l", "o", "a", "t">> :> "NativeFloat"
  @@ <<"d", "o", "u", "b", "l", "e">> :> "NativeDouble"
  @@ <<"v", "o", "i", "d">> :> "NativeVoid"

\* What a call gave: the exception raised or the value returned
Raised(error) == [error |-> error, value |-> <<>>]

Returns(value) == [error |-> NoError, value |-> value]

\* dict.__getitem__
getitem(registry, key) ==
  IF key \in DOMAIN registry THEN Returns(registry[key])
  ELSE Raised(KeyError(<<key>>))

\* ast.py 167-172: operator(op)
operator(op) ==
  IF str_lower(op) \notin DOMAIN op_registry
  THEN Raised(ValueError("Unrecognized operator", <<op>>))
  ELSE getitem(op_registry, op)

\* ast.py 322-327: datatype(dtype)
datatype(dtype) ==
  IF str_lower(dtype) \notin DOMAIN dtype_registry
  THEN Raised(ValueError("Unrecognized datatype", <<dtype>>))
  ELSE getitem(dtype_registry, dtype)

\* The values a Module is made of: a str, a Symbol of a name, a list or a
\* Tuple of elements
Str(chars) == [type |-> "str", name |-> chars, items |-> <<>>]

Symbol(name) == [type |-> "Symbol", name |-> name, items |-> <<>>]

List(items) == [type |-> "list", name |-> <<>>, items |-> items]

Tuple(items) == [type |-> "Tuple", name |-> <<>>, items |-> items]

\* sympy.utilities.iterables.iterable: lists and tuples are, strings and
\* symbols are not
iterable(x) == x.type \in {"list", "Tuple"}

\* ast.py 411-419: Module.__new__(cls, name, body)
Module_new(name, body) ==
  IF name.type # "str" THEN Raised(TypeError("Module name must be string"))
  ELSE IF ~iterable(body) THEN Raised(TypeError("body must be an iterable"))
  ELSE Returns([func |-> "Module", args |-> <<Symbol(name.name), Tuple(body.items)>>])

\* ast.py 421-427: the properties name and body
Module_name(m) == m.args[1]

Module_body(m) == m.args[1]

\* No function of symcc.types.ast has been called yet
NoCall == [fn |-> "none", given |-> <<>>, error |-> NoError, value |-> <<>>]

\* The threads that call wrap_code at the same time
NumThreads == 2

Threads == 1..NumThreads

\* A thread that has not called wrap_code yet; workdir and oldwork are
\* the locals of wrap_code, counter_read the value `_module_counter += 1`
\* has loaded and not yet stored
NoThread ==
  [pc |-> "idle", wrapper |-> "", workdir |-> "", oldwork |-> "",
   counter_read |-> 0, error |-> NoError, events |-> <<>>]

\* ---------------------------------------------------------------- state
VARIABLES
  pc,                 \* "idle" | "Routine" | "Assignment" | "Assign" | "dumped"
  expressions,        \* the expr argument of Routine(...)
  idx_labels,         \* the labels of expressions.atoms(Idx)
  array_labels,       \* the keys of array_symbols
  argument_sequence,  \* the argument_sequence argument of Routine(...)
  routine,            \* the Routine that was built, NoRoutine when none
  error,              \* the exception of the last call, NoError when none
  lhs, rhs,           \* the operands of Assignment(lhs, rhs) / Assign(lhs, rhs)
  node,               \* the assignment node that was built
  dump,               \* what the last dump function wrote or raised
  files,              \* the files of the directory CodeGen.write writes to
  write_call,         \* the last CodeGen.write call: arguments and outcome
  GENERATORS,         \* codegen.GENERATORS
  registrations,      \* the register_generator calls made, oldest first
  resolved,           \* the last get_code_generator call and its outcome
  module_counter,     \* CodeWrapper._module_counter
  dirs,               \* the directories that exist, each with its files
  cwd,                \* os.getcwd()
  sys_path,           \* sys.path, without the entries the model never touches
  default_helpers,    \* the list object that is wrap_code's default helpers
  tmp_count,          \* how many directories tempfile.mkdtemp has made
  wrap_calls,         \* the wrap_code calls made, oldest first
  threads,            \* the threads inside wrap_code: where each one is
  classified,         \* the Routine(...) calls made on one expression set
  ast_call            \* the last call of a function of symcc.types.ast

routine_vars == <<pc, expressions, idx_labels, array_labels, argument_sequence,
                  routine, error, lhs, rhs, node, dump>>

write_vars == <<files, write_call>>

registry_vars == <<GENERATORS, registrations, resolved>>

wrap_vars == <<module_counter, dirs, cwd, sys_path, default_helpers, tmp_count,
               wrap_calls, threads>>

types_vars == <<classified, ast_call>>

vars == <<routine_vars, write_vars, registry_vars, wrap_vars, types_vars>>

NoDump == [backend |-> "none", fn |-> "none", text |-> NoText]

NoWrite ==
  [n |-> 0, gen |-> CodeGen("none", <<>>), routines |-> <<>>, prefix |-> <<>>,
   to_files |-> FALSE, header |-> FALSE, empty |-> FALSE, error |-> NoError,
   returned |-> NoneReturned, dump_calls |-> <<>>]

\* The register_generator calls made when the generator modules are
\* imported (ccodegen.py 178, fcodegen.py 221)
Init_registrations ==
  <<[language |-> <<"C">>, generator |-> "CCodeGen"],
    [language |-> <<"F", "9", "5">>, generator |-> "FCodeGen"]>>

NoResolve ==
  [n |-> 0, language |-> <<>>, project |-> <<>>, error |-> NoError,
   generator |-> NoGenerator]

Init ==
  /\ pc = "idle"
  /\ expressions = <<>>
  /\ idx_labels = {}
  /\ array_labels = {}
  /\ argument_sequence = NoSequence
  /\ routine = NoRoutine
  /\ error = NoError
  /\ lhs = NoNode.lhs
  /\ rhs = NoNode.rhs
  /\ node = NoNode
  /\ dump = NoDump
  /\ files = NoFiles
  /\ write_call = NoWrite
  /\ GENERATORS = ImportedGenerators
  /\ registrations = Init_registrations
  /\ resolved = NoResolve
  /\ module_counter = 0
  /\ dirs = [d \in {"home"} |-> NoFiles]
  /\ cwd = "home"
  /\ sys_path = <<>>
  /\ default_helpers = <<>>
  /\ tmp_count = 0
  /\ wrap_calls = <<>>
  /\ threads = [t \in Threads |-> NoThread]
  /\ classified = <<>>
  /\ ast_call = NoCall

\* The argument sequences a caller can give: symbols, and IndexedBase
\* objects (-s stands for the IndexedBase labelled s)
SequenceItems == Symbols \cup {-s : s \in Symbols}

ArgumentSequences ==
  {NoSequence} \cup {Sequence(q) : q \in SeqsUpTo(SequenceItems, MaxSeqLen)}

\* The labels that head an Indexed or are a MatrixSymbol on a left-hand side
lhs_arrays(exprs) ==
  {exprs[i].lhs : i \in {j \in 1..Len(exprs) :
                           exprs[j].lhs_type \in {"Indexed", "MatrixSymbol"}}}

\* Routine(name, expr, argument_sequence)
NewRoutine ==
  /\ pc = "idle"
  /\ \E exprs \in SeqsUpTo(Expressions, MaxExprs),
        seq \in ArgumentSequences :
       \E Idx \in SUBSET free_symbols_of(exprs) :
         \E Array \in SUBSET (free_symbols_of(exprs) \ Idx) :
           /\ lhs_arrays(exprs) \ Idx \subseteq Array
           /\ LET r == RoutineInit(exprs, Idx, Array, seq)
              IN /\ expressions' = exprs
                 /\ idx_labels' = Idx
                 /\ array_labels' = Array
                 /\ argument_sequence' = seq
                 /\ routine' = r.routine
                 /\ error' = r.error
  /\ pc' = "Routine"
  /\ UNCHANGED <<lhs, rhs, node, dump>>
  /\ UNCHANGED <<write_vars, registry_vars, wrap_vars, types_vars>>

\* Assignment(lhs, rhs)
NewAssignment ==
  /\ pc = "idle"
  /\ \E l \in Operands, r \in Operands :
       LET a == AssignmentNew(l, r)
       IN /\ lhs' = l
          /\ rhs' = r
          /\ node' = a.node
          /\ error' = a.error
  /\ pc' = "Assignment"
  /\ UNCHANGED <<expressions, idx_labels, array_labels, argument_sequence,
                 routine, dump>>
  /\ UNCHANGED <<write_vars, registry_vars, wrap_vars, types_vars>>

\* Assign(lhs, rhs)
NewAssign ==
  /\ pc = "idle"
  /\ \E l \in Operands, r \in Operands :
       LET a == AssignNew(l, r)
       IN /\ lhs' = l
          /\ rhs' = r
          /\ node' = a.node
          /\ error' = a.error
  /\ pc' = "Assign"
  /\ UNCHANGED <<expressions, idx_labels, array_labels, argument_sequence,
                 routine, dump>>
  /\ UNCHANGED <<write_vars, registry_vars, wrap_vars, types_vars>>

\* A dump function of a generator, run on the routine that was built
Dump(backend, fn, text) ==
  /\ pc = "Routine"
  /\ routine.built
  /\ dump' = [backend |-> backend, fn |-> fn, text |-> text]
  /\ error' = text.error
  /\ pc' = "dumped"
  /\ UNCHANGED <<expressions, idx_labels, array_labels, argument_sequence,
                 routine, lhs, rhs, node>>
  /\ UNCHANGED <<write_vars, registry_vars, wrap_vars, types_vars>>

CDumpC == Dump("C", "dump_c", C_dump_c(routine))

CDumpH == Dump("C", "dump_h", C_dump_h(routine))

FDumpF95 == Dump("F95", "dump_f95", F_dump_f95(routine))

FDumpH == Dump("F95", "dump_h", F_dump_h(routine))

Next ==
  \/ NewRoutine
  \/ NewAssignment
  \/ NewAssign
  \/ CDumpC
  \/ CDumpH
  \/ FDumpF95
  \/ FDumpH

Spec == Init /\ [][Next]_vars

\* ------------------------------------------------- CodeGen.write, called
MaxRoutines == 2

\* The expressions the written routines are made of: a sum of two symbols
\* that differ in letter case only, a single symbol, an in-place update of
\* a symbol, an assignment to an array element and an unnamed matrix
SampleExpressions ==
  {[kind |-> "Expr", lhs_type |-> "None", lhs |-> 0,
    rhs |-> {1, 1 + NumSyms \div 2}],
   [kind |-> "Expr", lhs_type |-> "None", lhs |-> 0, rhs |-> {NumSyms}],
   [kind |-> "Equality", lhs_type |-> "Symbol", lhs |-> NumSyms,
    rhs |-> {NumSyms}],
   [kind |-> "Equality", lhs_type |-> "Indexed", lhs |-> 1, rhs |-> {NumSyms}],
   [kind |-> "ImmutableMatrix", lhs_type |-> "None", lhs |-> 0,
    rhs |-> {NumSyms}]}

\* The routines Routine(...) builds from them, with and without the last
\* symbol as a loop index
SampleRoutines ==
  {b.routine : b \in {c \in {RoutineInit(exprs, Idx, lhs_arrays(exprs) \ Idx, NoSequence) :
                               exprs \in SeqsUpTo(SampleExpressions, MaxExprs),
                               Idx \in {{}, {NumSyms}}} :
                        c.error.type = "none"}}

\* The file names a write with the given generators and prefixes can use
FileNames(Gens, Prefixes) ==
  {filename_of(gen, fn, prefix) :
     gen \in Gens, fn \in {"dump_c", "dump_f95", "dump_h"}, prefix \in Prefixes}

OldContents == <<Line("old", 0, <<>>)>>

\* The environment: a file is in the directory before write is called
ExistingFile(Names) ==
  /\ write_call.n = 0
  /\ files = NoFiles
  /\ \E name \in Names : files' = open_w(files, name, OldContents)
  /\ UNCHANGED <<write_call, routine_vars, registry_vars, wrap_vars, types_vars>>

\* The outcome of a write call, kept with its arguments
Written(gen, routines, prefix, to_files, header, empty, w) ==
  /\ files' = w.files
  /\ write_call' = [n |-> write_call.n + 1, gen |-> gen, routines |-> routines,
                    prefix |-> prefix, to_files |-> to_files,
                    header |-> header, empty |-> empty, error |-> w.error,
                    returned |-> w.returned, dump_calls |-> w.dump_calls]

\* gen.write(routines, prefix, to_files, header, empty)
Write(Gens, Lists, Prefixes) ==
  /\ write_call.n = 0
  /\ \E gen \in Gens, routines \in Lists, prefix \in Prefixes,
        to_files \in BOOLEAN, header \in BOOLEAN, empty \in BOOLEAN :
       Written(gen, routines, prefix, to_files, header, empty,
               write(gen, files, routines, prefix, to_files, header, empty))
  /\ UNCHANGED <<routine_vars, registry_vars, wrap_vars, types_vars>>

SampleGenerators == {CodeGen("C", <<"p">>), CodeGen("F95", <<"p">>)}

SamplePrefixes == {<<"a">>}

ExistingSampleFile == ExistingFile(FileNames(SampleGenerators, SamplePrefixes))

WriteSamples ==
  Write(SampleGenerators, SeqsUpTo(SampleRoutines, MaxRoutines), SamplePrefixes)

NextWrite ==
  \/ ExistingSampleFile
  \/ WriteSamples

SpecWrite == Init /\ [][NextWrite]_vars

\* CCodeGen(project).write(...) over the project names and prefixes
NamedGenerators == {CodeGen("C", project) : project \in Strings}

\* No routine, or the one routine that fills an array in a loop
NamedLists ==
  {<<>>} \cup {<<r>> : r \in {x \in SampleRoutines :
                                x.local_vars # {} /\ x.results = <<>>}}

WriteNamed == Write(NamedGenerators, NamedLists, Strings)

NextNamed == WriteNamed

SpecNamed == Init /\ [][NextNamed]_vars

\* ------------------------------------------- the generator registry, used
MaxRegistrations == 2
MaxResolves == 2

\* register_generator(language, generator)
RegisterGenerator ==
  /\ Len(registrations) < Len(Init_registrations) + MaxRegistrations
  /\ \E language \in Languages, generator \in Factories :
       /\ GENERATORS' = register_generator(GENERATORS, language, generator)
       /\ registrations' = Append(registrations,
                                  [language |-> language, generator |-> generator])
  /\ UNCHANGED <<resolved, routine_vars, write_vars, wrap_vars, types_vars>>

\* get_code_generator(language, project)
GetCodeGenerator ==
  /\ resolved.n < MaxResolves
  /\ \E language \in Languages, project \in Projects :
       LET g == get_code_generator(GENERATORS, language, project)
       IN resolved' = [n |-> resolved.n + 1, language |-> language,
                       project |-> project, error |-> g.error,
                       generator |-> g.generator]
  /\ UNCHANGED <<GENERATORS, registrations, routine_vars, write_vars, wrap_vars, types_vars>>

NextRegistry ==
  \/ RegisterGenerator
  \/ GetCodeGenerator

SpecRegistry == Init /\ [][NextRegistry]_vars

\* ------------------------------------------------------ wrap_code, called
MaxWraps == 2

\* The routines wrapped: a function of one symbol, a routine with two
\* return values, an in-place update, and routines that have an in-out
\* argument after an input or before an output argument
WrapRoutines ==
  {r \in SampleRoutines :
     /\ r.local_vars = {}
     /\ \/ /\ Len(r.arguments) = 1
           /\ \/ r.arguments[1].kind = "InOutArgument" /\ r.results = <<>>
              \/ r.arguments[1].kind = "InputArgument"
        \/ /\ Len(r.arguments) = 2
           /\ Len(r.results) <= 1
           /\ \/ /\ r.arguments[1].kind = "InputArgument"
                 /\ r.arguments[2].kind = "InOutArgument"
              \/ /\ r.arguments[1].kind = "InOutArgument"
                 /\ r.arguments[2].kind = "OutputArgument"}

Filepaths == {NoFilepath, "build"}

Flags == {<<>>, <<"--quiet">>}

\* What the environment decides: "ok", or the step it makes fail; a
\* failing build is a command that exits with status 1
Fates == {"ok", "setup", "build", "load", "lookup"}

exit_status(fate) == IF fate = "build" THEN 1 ELSE 0

Outputs == {<<"error: build failed">>}

\* The process state wrap_code reads and changes
process_state ==
  [module_counter |-> module_counter, dirs |-> dirs, cwd |-> cwd,
   sys_path |-> sys_path, default_helpers |-> default_helpers,
   tmp_count |-> tmp_count]

Wrapped(w) ==
  /\ module_counter' = w.state.module_counter
  /\ dirs' = w.state.dirs
  /\ cwd' = w.state.cwd
  /\ sys_path' = w.state.sys_path
  /\ default_helpers' = w.state.default_helpers
  /\ tmp_count' = w.state.tmp_count
  /\ wrap_calls' = Append(wrap_calls, w.call)
  /\ threads' = threads

\* wrapper.wrap_code(routine) and wrapper.wrap_code(routine, helpers)
WrapCode ==
  /\ Len(wrap_calls) < MaxWraps
  /\ \E wrapper \in Wrappers, filepath \in Filepaths, flags \in Flags,
        r \in WrapRoutines, helpers \in {NoHelpers, [given |-> TRUE, items |-> <<>>]},
        fate \in Fates, output \in Outputs :
       Wrapped(wrap_code(process_state, wrapper, filepath, flags, r, helpers,
                         fate, exit_status(fate), output))
  /\ UNCHANGED <<routine_vars, write_vars, registry_vars, types_vars>>

NextWrap == WrapCode

SpecWrap == Init /\ [][NextWrap]_vars

\* ------------------------------------- wrap_code, called from two threads
\* wrap_code has no lock: between any two of its statements another
\* thread may run.  Each action below is one statement of codewrapper.py
\* 57-77, run by thread t on the state all threads share.
ThreadRoutine ==
  CHOOSE r \in WrapRoutines :
    r.arguments[1].kind = "InputArgument" /\ Len(r.results) = 1

At(t, where) == threads[t].pc = where

Moved(t, change) ==
  threads' = [threads EXCEPT ![t] = [f \in DOMAIN @ |->
                IF f \in DOMAIN change THEN change[f] ELSE @[f]]]

\* What a step did, where (the process's working directory at the time)
\* and at which value of the counter
Did(t, step, counter) ==
  threads[t].events
    \o [i \in DOMAIN step.events |->
         Event(step.events[i].op, step.events[i].name, <<cwd, ToString(counter)>>)]

AfterStep(t, step, next) ==
  IF step.error.type = "none" THEN next ELSE "finally"

\* codewrapper.py 59: workdir = self.filepath or tempfile.mkdtemp(...)
ThreadMkdtemp(t) ==
  /\ At(t, "idle")
  /\ \E wrapper \in {"DummyWrapper", "F2PyCodeWrapper"} :
       Moved(t, [pc |-> "getcwd", wrapper |-> wrapper,
                 workdir |-> "tmp" \o ToString(tmp_count + 1)])
  /\ dirs' = mkdir(dirs, "tmp" \o ToString(tmp_count + 1))
  /\ tmp_count' = tmp_count + 1
  /\ UNCHANGED <<module_counter, cwd, sys_path>>

\* codewrapper.py 62: oldwork = os.getcwd()
ThreadGetcwd(t) ==
  /\ At(t, "getcwd")
  /\ IF cwd \in DOMAIN dirs
     THEN Moved(t, [pc |-> "chdir", oldwork |-> cwd])
     ELSE Moved(t, [pc |-> "raised", error |-> OSError])
  /\ UNCHANGED <<module_counter, dirs, cwd, sys_path, tmp_count>>

\* codewrapper.py 63: os.chdir(workdir)
ThreadChdir(t) ==
  /\ At(t, "chdir")
  /\ cwd' = threads[t].workdir
  /\ Moved(t, [pc |-> "generate"])
  /\ UNCHANGED <<module_counter, dirs, sys_path, tmp_count>>

\* codewrapper.py 65-66: sys.path.append(workdir) and _generate_code,
\* which reads the counter for the file name and opens the file relative
\* to the process's working directory
ThreadGenerate(t) ==
  /\ At(t, "generate")
  /\ sys_path' = Append(sys_path, threads[t].workdir)
  /\ IF cwd \notin DOMAIN dirs
     THEN /\ Moved(t, [pc |-> "finally", error |-> OSError])
          /\ dirs' = dirs
     ELSE LET g == generate_code(threads[t].wrapper, dirs[cwd], <<ThreadRoutine>>,
                                 module_counter, FALSE)
          IN /\ dirs' = put(dirs, cwd, g.files)
             /\ Moved(t, [pc |-> AfterStep(t, g, "process"), error |-> g.error,
                          events |-> Did(t, g, module_counter)])
  /\ UNCHANGED <<module_counter, cwd, tmp_count>>

\* The build succeeds when the source file named on the command line is
\* in the directory the command runs in
build_status(wrapper, fs, counter) ==
  IF wrapper = "DummyWrapper"
     \/ filename_of(generator_of(wrapper), "dump_f95", <<filename(counter)>>)
          \in DOMAIN fs
  THEN 0 ELSE 1

\* codewrapper.py 67-68: _prepare_files (nothing for these wrappers) and
\* _process_files, which reads the counter again for the command line
ThreadProcess(t) ==
  /\ At(t, "process")
  /\ IF cwd \notin DOMAIN dirs
     THEN /\ Moved(t, [pc |-> "finally", error |-> OSError])
          /\ dirs' = dirs
     ELSE LET p == process_files(threads[t].wrapper, dirs[cwd], module_counter, <<>>,
                                 build_status(threads[t].wrapper, dirs[cwd],
                                              module_counter),
                                 <<"error: no such file">>)
          IN /\ dirs' = put(dirs, cwd, p.files)
             /\ Moved(t, [pc |-> AfterStep(t, p, "import"), error |-> p.error,
                          events |-> Did(t, p, module_counter)])
  /\ UNCHANGED <<module_counter, cwd, sys_path, tmp_count>>

\* The files __import__ can see: those of the process's working
\* directory and of the directories on sys.path
RECURSIVE importable(_, _, _)
importable(ds, here, path) ==
  IF path = <<>> THEN (IF here \in DOMAIN ds THEN DOMAIN ds[here] ELSE {})
  ELSE (IF Head(path) \in DOMAIN ds THEN DOMAIN ds[Head(path)] ELSE {})
       \cup importable(ds, here, Tail(path))

\* codewrapper.py 69: mod = __import__(self.module_name), the name read
\* from the counter once more
ThreadImport(t) ==
  /\ At(t, "import")
  /\ LET m == import_module([n \in importable(dirs, cwd, sys_path) |-> <<>>],
                            module_counter, "ok")
     IN Moved(t, [pc |-> "finally", error |-> m.error,
                  events |-> Did(t, m, module_counter)])
  /\ UNCHANGED <<module_counter, dirs, cwd, sys_path, tmp_count>>

\* codewrapper.py 71: sys.path.remove(workdir)
ThreadPathRemove(t) ==
  /\ At(t, "finally")
  /\ sys_path' = remove(sys_path, threads[t].workdir)
  /\ Moved(t, [pc |-> "counter_load"])
  /\ UNCHANGED <<module_counter, dirs, cwd, tmp_count>>

\* codewrapper.py 72: CodeWrapper._module_counter += 1 loads the
\* attribute ...
ThreadCounterLoad(t) ==
  /\ At(t, "counter_load")
  /\ Moved(t, [pc |-> "counter_store", counter_read |-> module_counter])
  /\ UNCHANGED <<module_counter, dirs, cwd, sys_path, tmp_count>>

\* ... and stores the sum in a later bytecode
ThreadCounterStore(t) ==
  /\ At(t, "counter_store")
  /\ module_counter' = threads[t].counter_read + 1
  /\ Moved(t, [pc |-> "chdir_back"])
  /\ UNCHANGED <<dirs, cwd, sys_path, tmp_count>>

\* codewrapper.py 73: os.chdir(oldwork); it raises when oldwork is gone,
\* and then the rmtree after it is not reached
ThreadChdirBack(t) ==
  /\ At(t, "chdir_back")
  /\ IF threads[t].oldwork \in DOMAIN dirs
     THEN cwd' = threads[t].oldwork /\ Moved(t, [pc |-> "rmtree"])
     ELSE cwd' = cwd /\ Moved(t, [pc |-> "raised", error |-> OSError])
  /\ UNCHANGED <<module_counter, dirs, sys_path, tmp_count>>

\* codewrapper.py 74-77: shutil.rmtree(workdir), then the return or the
\* exception of the try block
ThreadRmtree(t) ==
  /\ At(t, "rmtree")
  /\ dirs' = rmtree(dirs, threads[t].workdir)
  /\ Moved(t, [pc |-> IF threads[t].error.type = "none" THEN "returned"
                      ELSE "raised"])
  /\ UNCHANGED <<module_counter, cwd, sys_path, tmp_count>>

ThreadStep(t) ==
  \/ ThreadMkdtemp(t)
  \/ ThreadGetcwd(t)
  \/ ThreadChdir(t)
  \/ ThreadGenerate(t)
  \/ ThreadProcess(t)
  \/ ThreadImport(t)
  \/ ThreadPathRemove(t)
  \/ ThreadCounterLoad(t)
  \/ ThreadCounterStore(t)
  \/ ThreadChdirBack(t)
  \/ ThreadRmtree(t)

NextThreads ==
  \E t \in Threads :
    /\ ThreadStep(t)
    /\ UNCHANGED <<routine_vars, write_vars, registry_vars, types_vars,
                   default_helpers, wrap_calls>>

SpecThreads == Init /\ [][NextThreads]_vars

\* ------------------------------------ Routine(...), called a second time
MaxClassifications == 2

MaxAtoms == 2

\* The orders in which a set can be iterated
Orders(S) ==
  {q \in [1..Cardinality(S) -> S] : \A i, j \in DOMAIN q : q[i] = q[j] => i = j}

\* The Indexed atoms an expression set can hold: their labels are free
\* symbols that are no loop index, and every Indexed left-hand side is
\* among them
AtomSets(exprs, Idx) ==
  {A \in SUBSET ((free_symbols_of(exprs) \ Idx) \X Shapes) :
     /\ Cardinality(A) <= MaxAtoms
     /\ lhs_arrays(exprs) \ Idx \subseteq {a[1] : a \in A}}

Classification(exprs, Idx, atoms, seq, order) ==
  [exprs |-> exprs, Idx |-> Idx, atoms |-> atoms, argument_sequence |-> seq,
   order |-> order,
   built |-> Routine_dimensioned(
               RoutineInit(exprs, Idx, DOMAIN array_symbols(order), seq),
               array_symbols(order))]

\* Routine(name, expr, argument_sequence)
ClassifyFirst ==
  /\ classified = <<>>
  /\ \E exprs \in SeqsUpTo(SampleExpressions, MaxExprs) \ {<<>>},
        seq \in ArgumentSequences, Idx \in {{}, {NumSyms}} :
       \E atoms \in AtomSets(exprs, Idx) :
         \E order \in Orders(atoms) :
           classified' = <<Classification(exprs, Idx, atoms, seq, order)>>
  /\ UNCHANGED <<routine_vars, write_vars, registry_vars, wrap_vars, ast_call>>

\* Routine(name, expr, argument_sequence) once more, with the same
\* arguments; the set of atoms is iterated in an order of its own
ClassifyAgain ==
  /\ classified # <<>>
  /\ Len(classified) < MaxClassifications
  /\ \E order \in Orders(classified[1].atoms) :
       classified' = Append(classified,
                            Classification(classified[1].exprs, classified[1].Idx,
                                           classified[1].atoms,
                                           classified[1].argument_sequence, order))
  /\ UNCHANGED <<routine_vars, write_vars, registry_vars, wrap_vars, ast_call>>

NextClassify ==
  \/ ClassifyFirst
  \/ ClassifyAgain

SpecClassify == Init /\ [][NextClassify]_vars

\* ------------------------------------------- symcc.types.ast, called
MaxNameLen == 3

\* The characters of the strings given to datatype and operator: letters
\* of 'int' in both cases and two operator symbols
AstAlphabet == {"i", "n", "t", "I", "+", "%"}

AstStrings == SeqsUpTo(AstAlphabet, MaxNameLen)

\* The names and bodies a Module is constructed from
ModuleNames == {Str(<<"m">>), Str(<<"i", "n", "t">>), Symbol(<<"m">>)}

ModuleElements == {Symbol(<<"a">>), Symbol(<<"b">>)}

ModuleBodies ==
  {List(q) : q \in SeqsUpTo(ModuleElements, 2)}
  \cup {Tuple(q) : q \in SeqsUpTo(ModuleElements, 2)}
  \cup {Symbol(<<"a">>)}

Called(fn, given, outcome) ==
  ast_call' = [fn |-> fn, given |-> given, error |-> outcome.error,
               value |-> outcome.value]

\* datatype(dtype)
CallDatatype ==
  /\ \E dtype \in AstStrings : Called("datatype", <<dtype>>, datatype(dtype))
  /\ UNCHANGED <<routine_vars, write_vars, registry_vars, wrap_vars, classified>>

\* operator(op)
CallOperator ==
  /\ \E op \in AstStrings : Called("operator", <<op>>, operator(op))
  /\ UNCHANGED <<routine_vars, write_vars, registry_vars, wrap_vars, classified>>

\* Module(name, body)
ModuleNew ==
  /\ \E name \in ModuleNames, body \in ModuleBodies :
       Called("Module", <<name, body>>, Module_new(name, body))
  /\ UNCHANGED <<routine_vars, write_vars, registry_vars, wrap_vars, classified>>

NextAst ==
  \/ CallDatatype
  \/ CallOperator
  \/ ModuleNew

SpecAst == Init /\ [][NextAst]_vars

\* ------------------------------------------- CodeGen.dump_code, called
\* The routines dumped: the sample routines, and the routines of the same
\* expressions in which free symbols are the labels of input arrays
ArrayRoutines ==
  {b.routine :
     b \in {c \in UNION {{RoutineInit(exprs, {}, Array, NoSequence) :
                            Array \in {A \in SUBSET free_symbols_of(exprs) :
                                         lhs_arrays(exprs) \subseteq A}} :
                          exprs \in SeqsUpTo(SampleExpressions, MaxExprs)} :
              c.error.type = "none"}}

\* FCodeGen(project).dump_code([routine], f, prefix, header, empty)
DumpCode ==
  /\ pc = "idle"
  /\ \E r \in SampleRoutines \cup ArrayRoutines, header \in BOOLEAN,
        empty \in BOOLEAN :
       /\ routine' = r
       /\ dump' = [backend |-> "F95", fn |-> "dump_code",
                   text |-> dump_code(CodeGen("F95", <<"p">>), <<r>>, <<"a">>,
                                      header, empty)]
       /\ error' = dump_code(CodeGen("F95", <<"p">>), <<r>>, <<"a">>,
                             header, empty).error
  /\ pc' = "dumped"
  /\ UNCHANGED <<expressions, idx_labels, array_labels, argument_sequence,
                 lhs, rhs, node>>
  /\ UNCHANGED <<write_vars, registry_vars, wrap_vars, types_vars>>

NextDumpCode == DumpCode

SpecDumpCode == Init /\ [][NextDumpCode]_vars

\* ================================================================ claims
\* What the claims speak of, read off the call's arguments.
Args == routine.arguments

ArgNames == {Args[i].name : i \in 1..Len(Args)}

IsOut(a) == a.kind \in {"OutputArgument", "InOutArgument"}

Equalities == {i \in 1..Len(expressions) : expressions[i].kind = "Equality"}

Matrices == {i \in 1..Len(expressions) : expressions[i].kind = "ImmutableMatrix"}

Plain == {i \in 1..Len(expressions) : expressions[i].kind = "Expr"}

\* The first n expressions can all be classified: every equality among them
\* has a target that can define an output argument, no symbol is assigned
\* twice and no loop index is assigned.
Classifiable(n) ==
  /\ \A i \in Equalities : i <= n =>
       /\ expressions[i].lhs_type \in NamedLhsTypes
       /\ expressions[i].lhs \notin idx_labels
       /\ \A j \in Equalities : j < i => expressions[j].lhs # expressions[i].lhs

\* The arguments the expressions call for
DerivedNames ==
  (free_symbols_of(expressions) \ idx_labels)
  \cup {out_symbol(expressions[i]) : i \in Matrices}

\* The symbols the explicit ordering names
Ordered ==
  {IF x < 0 THEN -x ELSE x : x \in Range(argument_sequence.items)}

Omitted == DerivedNames \ Ordered

Derivable == expressions # <<>> /\ Classifiable(Len(expressions))

\* The class the expressions give the argument named s
DerivedKind(s) ==
  IF \E i \in Equalities : expressions[i].lhs = s
  THEN LET i == CHOOSE k \in Equalities : expressions[k].lhs = s
       IN IF s \in expressions[i].rhs THEN "InOutArgument" ELSE "OutputArgument"
  ELSE IF \E i \in Matrices : out_symbol(expressions[i]) = s
  THEN "OutputArgument"
  ELSE "InputArgument"

\* C1: a Routine built without an explicit argument ordering lists all its
\* InputArguments in ascending name order and after them all its Output and
\* InOut arguments in ascending name order; no Output/InOut argument comes
\* before an InputArgument.
C1_InputsThenOutputsSorted ==
  (routine.built /\ ~argument_sequence.given) =>
    /\ \A i, j \in 1..Len(Args) : i < j =>
         /\ ~(IsOut(Args[i]) /\ ~IsOut(Args[j]))
         /\ (~IsOut(Args[i]) /\ ~IsOut(Args[j])) => Args[i].name < Args[j].name
         /\ (IsOut(Args[i]) /\ IsOut(Args[j])) => Args[i].name <= Args[j].name
    /\ {Args[i].name : i \in {k \in 1..Len(Args) : ~IsOut(Args[k])}}
         = (free_symbols_of(expressions) \ idx_labels)
             \ {expressions[i].lhs : i \in Equalities}
    /\ {Args[i].name : i \in {k \in 1..Len(Args) : IsOut(Args[k])}}
         = {expressions[i].lhs : i \in Equalities}
             \cup {out_symbol(expressions[i]) : i \in Matrices}

\* An input argument whose name sorts after that of an output argument,
\* followed by two output arguments.
C1_Witness ==
  /\ routine.built /\ ~argument_sequence.given
  /\ Len(Args) = 3
  /\ ~IsOut(Args[1]) /\ IsOut(Args[2]) /\ IsOut(Args[3])
  /\ Args[1].name > Args[2].name
  /\ expressions[1].kind = "ImmutableMatrix"

\* C2: in a Routine that was built, the symbol x assigned by an equality
\* x := f is an InOutArgument if x occurs in f and an OutputArgument if it
\* does not, and no InputArgument bears the name x.
C2_AssignedSymbolKind ==
  routine.built =>
    \A i \in Equalities :
      LET e == expressions[i]
      IN /\ \E j \in 1..Len(Args) : Args[j].name = e.lhs
         /\ \A j \in 1..Len(Args) : Args[j].name = e.lhs =>
              /\ Args[j].kind = (IF e.lhs \in e.rhs THEN "InOutArgument"
                                 ELSE "OutputArgument")
              /\ Args[j].expr = e.rhs

\* One equality whose target occurs in its right-hand side, one whose
\* target does not.
C2_Witness ==
  /\ routine.built
  /\ Len(expressions) = 2
  /\ Equalities = {1, 2}
  /\ expressions[1].lhs \in expressions[1].rhs
  /\ expressions[2].lhs \notin expressions[2].rhs
  /\ expressions[1].lhs \in expressions[2].rhs

\* C3: when an explicit ordering is given and leaves out derived arguments,
\* the construction raises the missing-argument ValueError, whose message
\* names exactly the arguments left out, and builds no Routine.
C3_MissingArguments ==
  (pc = "Routine" /\ argument_sequence.given /\ Derivable /\ Omitted # {}) =>
    /\ ~routine.built
    /\ error.type = "ValueError"
    /\ error.msg = "Argument list didn't specify"
    /\ Range(error.names) = Omitted

\* An ordering that names one derived argument and leaves out an input and
\* an output.
C3_Witness ==
  /\ pc = "Routine" /\ argument_sequence.given /\ Derivable
  /\ Cardinality(Omitted) = 2
  /\ Ordered # {}
  /\ Equalities # {}
  /\ error.type = "ValueError"

C6_FreeSymbolsDeclared ==
  /\ routine.built =>
       /\ \A i \in 1..Len(Args) :
            IsOut(Args[i]) => Args[i].expr \subseteq ArgNames \cup routine.local_vars
       /\ \A i \in 1..Len(routine.results) :
            routine.results[i].expr \subseteq ArgNames \cup routine.local_vars
       /\ \A i \in 1..Len(expressions) :
            expressions[i].rhs \subseteq ArgNames \cup routine.local_vars
  /\ (pc = "Routine" /\ argument_sequence.given
      /\ \E i \in 1..Len(expressions) :
           ~(expressions[i].rhs \subseteq Ordered \cup idx_labels)) =>
       ~routine.built

\* A Routine built with an ordering, whose result reads a loop index and an
\* argument and whose output argument reads an argument.
C6_Witness ==
  /\ routine.built /\ argument_sequence.given
  /\ Len(routine.results) = 1
  /\ routine.results[1].expr \cap routine.local_vars # {}
  /\ routine.results[1].expr \cap ArgNames # {}
  /\ \E i \in 1..Len(Args) : IsOut(Args[i]) /\ Args[i].expr # {}

\* The plain expressions, in the order given
RECURSIVE PlainResults(_)
PlainResults(exprs) ==
  IF exprs = <<>> THEN <<>>
  ELSE IF Head(exprs).kind = "Expr"
  THEN <<[expr |-> Head(exprs).rhs]>> \o PlainResults(Tail(exprs))
  ELSE PlainResults(Tail(exprs))

OutArgs == SelectSeq(Args, IsOut)

ClaimedAssignable == {"Symbol", "Indexed", "MatrixElement", "MatrixSymbol"}

\* The construction reaches, without an earlier exception, an equality whose
\* target is of one of the classes T.
MeetsTarget(T) ==
  \E i \in Equalities : expressions[i].lhs_type \in T /\ Classifiable(i - 1)

\* C8 as stated: an assignment to a target that is no scalar symbol, indexed
\* element or matrix symbol raises a TypeError, when the assignment node is
\* built and when Routine construction meets it, and builds nothing.
C8_BadTargetTypeError ==
  /\ (pc \in {"Assignment", "Assign"} /\ lhs.type \notin ClaimedAssignable) =>
       error.type = "TypeError" /\ node = NoNode
  /\ (pc = "Routine" /\ MeetsTarget({"Add"})) =>
       error.type = "TypeError" /\ ~routine.built

\* C8, amended: Assignment and Assign raise a TypeError for a target that is
\* no Symbol, MatrixSymbol, MatrixElement or Indexed; Routine construction
\* that meets an equality whose target is no Indexed, Symbol or MatrixSymbol
\* (a MatrixElement is none) raises a ValueError; nothing is built, and no
\* Routine is ever built from expressions with such an equality.
C8_BadTargetRejected ==
  /\ (pc \in {"Assignment", "Assign"} /\ lhs.type \notin ClaimedAssignable) =>
       error.type = "TypeError" /\ node = NoNode
  /\ (pc = "Routine" /\ MeetsTarget(EqualityLhsTypes \ NamedLhsTypes)) =>
       /\ error.type = "ValueError"
       /\ error.msg = "Only Indexed, Symbol, or MatrixSymbol can define output arguments."
  /\ (\E i \in Equalities : expressions[i].lhs_type \notin NamedLhsTypes) =>
       ~routine.built

\* Routine construction classifies one equality and then meets one whose
\* target is a sum.
C8_Witness ==
  /\ pc = "Routine"
  /\ Len(expressions) = 2 /\ Equalities = {1, 2}
  /\ expressions[1].lhs_type = "Indexed"
  /\ expressions[2].lhs_type = "Add"
  /\ error.type = "ValueError" /\ ~routine.built

\* C9: an assignment to an assignable target raises a ValueError exactly
\* when a matrix is assigned to a scalar target, a scalar to a matrix
\* target, or a matrix to a matrix target of another shape, an Indexed
\* counting as a scalar on either side; otherwise the node is built.
C9_ShapeErrors ==
  (pc \in {"Assignment", "Assign"} /\ lhs.type \in ClaimedAssignable) =>
    LET lhs_mat == lhs.type \in MatrixTypes
        rhs_mat == rhs.type \in MatrixTypes
        clash == \/ rhs_mat /\ ~lhs_mat
                 \/ lhs_mat /\ ~rhs_mat
                 \/ lhs_mat /\ rhs_mat /\ lhs.shape # rhs.shape
    IN IF clash
       THEN error.type = "ValueError" /\ node = NoNode
       ELSE /\ error = NoError
            /\ node.op # "none" /\ node.lhs = lhs /\ node.rhs = rhs

\* An Indexed, which has a shape, assigned to a scalar symbol.
C9_Witness ==
  /\ pc = "Assignment"
  /\ lhs.type = "Symbol" /\ rhs.type = "Indexed"
  /\ error = NoError /\ node.op = ":="

\* The form a backend gives a routine with at most one Result
ExpectedForm ==
  IF Len(routine.results) = 1 THEN "typed function"
  ELSE IF dump.backend = "C" THEN "void function" ELSE "subroutine"

\* Two variables of the routine differ only in letter case
CaseClash ==
  \E x \in ArgNames \cup routine.local_vars :
    x <= NumSyms \div 2 /\ x + NumSyms \div 2 \in ArgNames \cup routine.local_vars

\* C10 as stated: each dump function of the C and of the Fortran generator
\* raises a ValueError for a routine with more than one Result and accepts
\* every other routine, writing a void function / subroutine for no Result
\* and a typed function for one.
C10_SingleResultOnly ==
  pc = "dumped" =>
    IF Len(routine.results) > 1
    THEN error.type = "ValueError"
    ELSE error = NoError /\ dump.text.form = ExpectedForm

\* C10, amended: as stated, except that the Fortran code dump (dump_f95)
\* also raises a ValueError for a routine with at most one Result two of
\* whose variables differ only in letter case.
C10_SingleResultOrCaseClash ==
  pc = "dumped" =>
    IF Len(routine.results) > 1
    THEN error.type = "ValueError"
    ELSE IF dump.fn = "dump_f95" /\ CaseClash
    THEN error.type = "ValueError"
    ELSE error = NoError /\ dump.text.form = ExpectedForm

\* The Fortran interface dump refuses a routine with two Results.
C10_Witness ==
  /\ pc = "dumped"
  /\ dump.backend = "F95" /\ dump.fn = "dump_h"
  /\ Len(routine.results) = 2
  /\ error.type = "ValueError"

\* ------------------------------------------------ CCodeGen.get_prototype
\* Reading a parameter list back: "type name" or "type * name" per
\* parameter, the parameters separated by commas
RECURSIVE ParseParameters(_)
ParseParameters(tokens) ==
  IF tokens = <<>> THEN <<>>
  ELSE LET starred == Len(tokens) >= 2 /\ tokens[2] = "*"
           n == IF starred THEN 3 ELSE 2
           rest == SubSeq(tokens, n + 1, Len(tokens))
       IN <<[type |-> tokens[1], name |-> tokens[n], pointer |-> starred]>>
          \o (IF rest = <<>> THEN <<>> ELSE ParseParameters(Tail(rest)))

\* The parameters read back from the prototype that was dumped:
\* "<ctype> <name> ( <parameters> )"
Parsed == ParseParameters(SubSeq(dump.text.text, 4, Len(dump.text.text) - 1))

ByAddress(a) ==
  a.dimensions # 0 \/ a.kind \in {"OutputArgument", "InOutArgument"}

\* C12: the C prototype of a routine lists exactly the routine's
\* arguments, once each and in the routine's argument order, each with its
\* C type; an argument is passed by pointer if and only if it has
\* dimensions or is an Output/InOut argument, so every scalar
\* InputArgument is passed by value; reading the prototype back gives the
\* names, types and order of the routine's arguments.
C12_PrototypeRoundTrip ==
  (pc = "dumped" /\ dump.backend = "C" /\ error = NoError) =>
    /\ Len(Parsed) = Len(routine.arguments)
    /\ \A i \in 1..Len(Parsed) :
         /\ Parsed[i].name = str(routine.arguments[i].name)
         /\ Parsed[i].type = get_datatype(routine.arguments[i], "C")
         /\ Parsed[i].pointer <=> ByAddress(routine.arguments[i])
         /\ (routine.arguments[i].kind = "InputArgument"
             /\ routine.arguments[i].dimensions = 0) => ~Parsed[i].pointer

\* A prototype was dumped for a routine that takes a scalar input, an
\* array and a scalar output or in-out argument.
C12_Witness ==
  /\ pc = "dumped" /\ dump.backend = "C" /\ dump.fn = "dump_h"
  /\ error = NoError
  /\ \E i, j, k \in 1..Len(routine.arguments) :
       /\ routine.arguments[i].kind = "InputArgument"
       /\ routine.arguments[i].dimensions = 0
       /\ ~Parsed[i].pointer
       /\ routine.arguments[j].dimensions # 0
       /\ routine.arguments[k].kind # "InputArgument"
       /\ routine.arguments[k].dimensions = 0
       /\ Parsed[k].pointer

\* --------------------------------------------------- CodeGen.write
\* A write call has just been made
WriteStep == write_call'.n = write_call.n + 1

\* The k-th artifact of the last write: what was returned for it or, with
\* to_files, what its file holds
ArtifactName(k) ==
  filename_of(write_call.gen, dump_fns(write_call.gen)[k], write_call.prefix)

Artifact(k) ==
  IF write_call.to_files THEN files[ArtifactName(k)]
  ELSE write_call.returned.items[k].contents

\* C11 as stated: when the Fortran generator writes routines one of which
\* has two variables that differ in letter case only, the call fails with
\* a ValueError, returns nothing, and no file has been created or
\* truncated.
C11_CaseClashTouchesNoFile ==
  [][(/\ WriteStep
      /\ write_call'.gen.language = "F95"
      /\ \E i \in 1..Len(write_call'.routines) :
           case_collision(write_call'.routines[i]))
     => /\ write_call'.error.type = "ValueError"
        /\ ~write_call'.returned.given
        /\ files' = files]_vars

\* ------------------------------------------------------ CCodeGen.dump_h
\* A name with every character that is not a letter or a digit replaced
\* by an underscore, and upper-cased
IsAlnum(c) ==
  \E i \in 1..26 : c \in {ascii_lowercase[i], ascii_uppercase[i]}
                    \/ (i <= 10 /\ c = digits[i])

Normalised(s) ==
  [i \in 1..Len(s) |-> IF IsAlnum(s[i]) THEN upper_char(s[i]) ELSE "_"]

\* The guard names on the lines of the given kind of a file
GuardsOn(seg, lines) ==
  SelectSeq(lines, LAMBDA l : l.seg = seg)

\* C13 as stated: the include guard of the C interface file is derived
\* from the project name and the prefix alone, upper-cased, with every
\* character of either that is not a letter or a digit replaced by an
\* underscore, so that it is made of upper-case letters, digits and
\* underscores only; #ifndef and #define carry the same guard.
C13_GuardNormalised ==
  (write_call.n > 0 /\ write_call.gen.language = "C"
   /\ write_call.error = NoError) =>
    /\ Len(GuardsOn("ifndef", Artifact(2))) = 1
    /\ Len(GuardsOn("define", Artifact(2))) = 1
    /\ GuardsOn("ifndef", Artifact(2))[1].text
         = GuardsOn("define", Artifact(2))[1].text
    /\ GuardsOn("ifndef", Artifact(2))[1].text
         = Normalised(write_call.gen.project) \o <<"_", "_">>
           \o Normalised(write_call.prefix) \o <<"_", "_", "H">>

\* --------------------------------------------------- the generator registry
\* Two names are equal ignoring letter case
SameName(a, b) ==
  Len(a) = Len(b) /\ \A i \in 1..Len(a) : upper_char(a[i]) = upper_char(b[i])

\* The register_generator calls made so far under a name equal to the
\* given one ignoring case, by their position
RegisteredAs(name) ==
  {i \in 1..Len(registrations) : SameName(registrations[i].language, name)}

Latest(S) == CHOOSE i \in S : \A j \in S : j <= i

\* What a name resolves to in a registry
Bound(registry, name) == get_code_generator(registry, name, <<>>)

\* C14: get_code_generator(name, project) returns a generator built by the
\* factory most recently registered under a name equal to name ignoring
\* letter case, initialised with project, and raises a ValueError when no
\* such name was ever registered; resolving leaves the registry as it is,
\* and registering a name leaves every name that differs from it (ignoring
\* case) bound as it was.
C14_RegistryLookup ==
  [][/\ resolved' # resolved =>
          /\ GENERATORS' = GENERATORS
          /\ registrations' = registrations
          /\ IF RegisteredAs(resolved'.language) = {}
             THEN /\ resolved'.error.type = "ValueError"
                  /\ resolved'.generator = NoGenerator
             ELSE /\ resolved'.error = NoError
                  /\ resolved'.generator =
                       [class |-> registrations[
                                    Latest(RegisteredAs(resolved'.language))].generator,
                        project |-> resolved'.project]
     /\ registrations' # registrations =>
          \A name \in Languages :
            ~SameName(name, registrations'[Len(registrations')].language)
              => Bound(GENERATORS', name) = Bound(GENERATORS, name)]_vars

\* "F95" resolved to the C generator, which was registered as "f95" after
\* the Fortran generator, and was built with the project asked for.
C14_Witness ==
  /\ Len(registrations) > Len(Init_registrations)
  /\ registrations[Len(registrations)] =
       [language |-> <<"f", "9", "5">>, generator |-> "CCodeGen"]
  /\ resolved.n > 0
  /\ resolved.language = <<"F", "9", "5">>
  /\ resolved.error = NoError
  /\ resolved.generator = [class |-> "CCodeGen", project |-> <<"q">>]
  /\ Bound(GENERATORS, <<"f", "9">>).error.type = "ValueError"

\* ------------------------------------------------- CodeGen.write, dispatch
\* The dump routines of a built-in backend, implementation first, and the
\* extensions of the files they make
Implementation(gen) == IF gen.language = "C" THEN "dump_c" ELSE "dump_f95"

ExpectedDumps(gen) == <<Implementation(gen), "dump_h">>

ExpectedName(c, k) ==
  c.prefix \o <<".">>
  \o (IF k = 2 THEN <<"h">>
      ELSE IF c.gen.language = "C" THEN <<"c">> ELSE <<"f", "9", "0">>)

\* What the k-th dump routine writes for the routine list of the call c
ExpectedContents(c, k) ==
  dump_fn(c.gen, ExpectedDumps(c.gen)[k], c.routines, c.prefix, c.header,
          c.empty).lines

\* The call c, made on the files before, ran the first n dump routines
\* and put each one's output under its name
Produced(c, n, before, after) ==
  /\ c.dump_calls = SubSeq(ExpectedDumps(c.gen), 1, n)
  /\ IF c.to_files
     THEN /\ DOMAIN after = DOMAIN before \cup {ExpectedName(c, k) : k \in 1..n}
          /\ \A k \in 1..n : after[ExpectedName(c, k)] = ExpectedContents(c, k)
          /\ \A name \in DOMAIN before :
               name \notin {ExpectedName(c, k) : k \in 1..n}
                 => after[name] = before[name]
     ELSE after = before

\* The call c returned the pairs of both artifacts, or nothing with
\* to_files
Returned(c) ==
  IF c.to_files THEN ~c.returned.given
  ELSE /\ c.returned.given
       /\ Len(c.returned.items) = 2
       /\ \A k \in 1..2 :
            c.returned.items[k] = [filename |-> ExpectedName(c, k),
                                   contents |-> ExpectedContents(c, k)]

\* C15 as stated: every write call on a built-in backend runs each dump
\* routine of the backend exactly once, the implementation first and the
\* interface second, over the same routine list, and produces exactly two
\* artifacts named <prefix>.<extension>: without to_files the two
\* (filename, contents) pairs are returned and no file is written, with
\* to_files the two files are written and nothing is returned.
C15_TwoArtifactsAlways ==
  [][WriteStep =>
       /\ Produced(write_call', 2, files, files')
       /\ Returned(write_call')]_vars

\* C15, amended: as stated for every write call that returns.  A call in
\* which a dump routine raises ends with that ValueError: the dump
\* routines up to the one that raised ran once each, in the same order,
\* the later ones did not run, nothing is returned, and only the files of
\* the dump routines that ran are written.
C15_TwoArtifactsUnlessRefused ==
  [][WriteStep =>
       IF write_call'.error = NoError
       THEN /\ Produced(write_call', 2, files, files')
            /\ Returned(write_call')
       ELSE /\ write_call'.error.type = "ValueError"
            /\ ~write_call'.returned.given
            /\ \E n \in 1..2 :
                 /\ Produced(write_call', n, files, files')
                 /\ dump_fn(write_call'.gen, ExpectedDumps(write_call'.gen)[n],
                            write_call'.routines, write_call'.prefix,
                            write_call'.header, write_call'.empty).error
                      = write_call'.error]_vars

\* A Fortran write of two routines to files replaced the old a.f90 and
\* made a.h.
C15_Witness ==
  /\ write_call.n > 0 /\ write_call.error = NoError
  /\ write_call.gen.language = "F95" /\ write_call.to_files
  /\ Len(write_call.routines) = 2
  /\ write_call.dump_calls = <<"dump_f95", "dump_h">>
  /\ ~write_call.returned.given
  /\ DOMAIN files = {ExpectedName(write_call, 1), ExpectedName(write_call, 2)}
  /\ \A k \in 1..2 : files[ExpectedName(write_call, k)] # OldContents
  /\ files[ExpectedName(write_call, 1)] # files[ExpectedName(write_call, 2)]

\* ------------------------------------------------------ CodeGen.dump_code
\* The implementation file of the last write
CodeFile == Artifact(1)

\* The place of a segment within its routine (the header and the
\* preprocessor statements belong to the file, routine 0)
Rank(seg) ==
  CASE seg = "header" -> 0
    [] seg = "preprocessor" -> 1
    [] seg = "opening" -> 1
    [] seg = "arguments" -> 2
    [] seg = "locals" -> 3
    [] seg = "body" -> 4
    [] seg = "ending" -> 5
    [] OTHER -> 6

\* The lines of one segment of the i-th routine, and where they begin
Segment(f, i, seg) == SelectSeq(f, LAMBDA l : l.routine = i /\ l.seg = seg)

FirstOf(f, i, seg) ==
  CHOOSE p \in 1..Len(f) :
    /\ f[p].routine = i /\ f[p].seg = seg
    /\ \A q \in 1..(p - 1) : ~(f[q].routine = i /\ f[q].seg = seg)

\* The lines other than blank lines come routine by routine and, within a
\* routine, segment by segment
InOrder(f) ==
  \A p, q \in 1..Len(f) :
    (p < q /\ f[p].seg # "blank" /\ f[q].seg # "blank") =>
      \/ f[p].routine < f[q].routine
      \/ f[p].routine = f[q].routine /\ Rank(f[p].seg) <= Rank(f[q].seg)

\* The blank lines are the lines just before the opening, the body and the
\* closing of each routine
BlanksOf(f) == {p \in 1..Len(f) : f[p].seg = "blank"}

BlanksWanted(f, n) ==
  {FirstOf(f, i, seg) - 1 : i \in 1..n, seg \in {"opening", "body", "ending"}}

\* C16: the implementation file dump_code produces is the header comment
\* first if and only if a header is asked for, then the preprocessor
\* statements once, then for each routine in list order its opening,
\* argument declarations, local declarations, body and closing in that
\* order, with a blank line before the opening, before the body and before
\* the closing if and only if blank lines are asked for; the segments of
\* different routines do not interleave.
C16_CodeSkeleton ==
  (write_call.n > 0 /\ write_call.error = NoError) =>
    /\ InOrder(CodeFile)
    /\ Segment(CodeFile, 0, "header")
         = (IF write_call.header THEN get_header(write_call.gen.project) ELSE <<>>)
    /\ write_call.header => CodeFile[1].seg = "header"
    /\ Segment(CodeFile, 0, "preprocessor")
         = preprocessor_statements(write_call.gen)
    /\ \A p \in 1..Len(CodeFile) :
         CodeFile[p].routine \in 0..Len(write_call.routines)
         /\ CodeFile[p].seg \in {"header", "preprocessor", "blank", "opening",
                                "arguments", "locals", "body", "ending"}
    /\ \A i \in 1..Len(write_call.routines) :
         /\ Segment(CodeFile, i, "opening")
              = get_routine_opening(write_call.gen, write_call.routines[i], i).lines
         /\ Segment(CodeFile, i, "arguments")
              = declare_arguments(write_call.gen, write_call.routines[i], i)
         /\ Segment(CodeFile, i, "locals")
              = declare_locals(write_call.gen, write_call.routines[i], i)
         /\ Segment(CodeFile, i, "body")
              = call_printer(write_call.gen, write_call.routines[i], i)
         /\ Segment(CodeFile, i, "ending")
              = get_routine_ending(write_call.gen, write_call.routines[i], i)
         /\ Segment(CodeFile, i, "opening") # <<>>
         /\ Segment(CodeFile, i, "body") # <<>>
         /\ Segment(CodeFile, i, "ending") # <<>>
    /\ BlanksOf(CodeFile) =
         (IF write_call.empty
          THEN BlanksWanted(CodeFile, Len(write_call.routines)) ELSE {})
    /\ write_call.empty =>
         Cardinality(BlanksOf(CodeFile)) = 3 * Len(write_call.routines)

\* A Fortran file of two routines with header and blank lines was written,
\* the second routine with argument and local declarations.
C16_Witness ==
  /\ write_call.n > 0 /\ write_call.error = NoError
  /\ write_call.gen.language = "F95"
  /\ write_call.header /\ write_call.empty
  /\ Len(write_call.routines) = 2
  /\ write_call.routines[1] # write_call.routines[2]
  /\ Segment(CodeFile, 2, "arguments") # <<>>
  /\ Segment(CodeFile, 2, "locals") # <<>>
  /\ Cardinality(BlanksOf(CodeFile)) = 6

\* ------------------------------------------------- CodeWrapper.wrap_code
\* A wrap_code call has just ended; the call, as recorded
WrapStep == Len(wrap_calls') = Len(wrap_calls) + 1

LastCall == wrap_calls[Len(wrap_calls)]

\* The call got as far as its working directory
PastSetup(c) == c.env.fate # "setup"

\* How a call past setup ended
ExitPath(c) ==
  IF c.error.type = "none" THEN "success"
  ELSE IF c.error.type = "CodeWrapError" THEN "build failure"
  ELSE IF c.error.type = "ImportError" THEN "load failure"
  ELSE IF c.error.type = "AttributeError" THEN "lookup failure"
  ELSE IF \E k \in 1..Len(c.events) : c.events[k].op = "prepare"
  THEN "preparation failure"
  ELSE "generation failure"

\* The source file the call generates in its working directory
GeneratedFile(c) ==
  IF c.wrapper = "DummyWrapper"
  THEN <<"wrapper_module_" \o ToString(c.counter), ".", "py">>
  ELSE IF c.wrapper = "F2PyCodeWrapper"
  THEN <<"wrapped_code_" \o ToString(c.counter), ".", "f", "9", "0">>
  ELSE <<"wrapped_code_" \o ToString(c.counter), ".", "c">>

\* Every file of every directory of before is still there in after
KeepsFiles(before, after) ==
  \A d \in DOMAIN before :
    d \in DOMAIN after /\ DOMAIN before[d] \subseteq DOMAIN after[d]

\* C17: a wrap_code call without a caller-specified directory makes a
\* temporary working directory that no longer exists when the call ends,
\* however it ends: success, generation failure, file-preparation failure,
\* build failure or load failure.  With a caller-specified path, that
\* directory, made if absent, and the files written into it are left in
\* place however the call ends.
C17_ScopedWorkdir ==
  [][(WrapStep /\ PastSetup(wrap_calls'[Len(wrap_calls')])) =>
       IF wrap_calls'[Len(wrap_calls')].filepath = NoFilepath
       THEN /\ wrap_calls'[Len(wrap_calls')].events[1].op = "mkdtemp"
            /\ wrap_calls'[Len(wrap_calls')].events[1].name
                 = wrap_calls'[Len(wrap_calls')].workdir
            /\ wrap_calls'[Len(wrap_calls')].workdir \notin DOMAIN dirs
            /\ wrap_calls'[Len(wrap_calls')].workdir \notin DOMAIN dirs'
            /\ dirs' = dirs
       ELSE /\ wrap_calls'[Len(wrap_calls')].workdir
                 = wrap_calls'[Len(wrap_calls')].filepath
            /\ wrap_calls'[Len(wrap_calls')].filepath \in DOMAIN dirs'
            /\ KeepsFiles(dirs, dirs')
            /\ GeneratedFile(wrap_calls'[Len(wrap_calls')])
                 \in DOMAIN dirs'[wrap_calls'[Len(wrap_calls')].filepath]]_vars

\* A call without a directory was ended by a failed build and a call with
\* a directory of the caller's by a failed load: the temporary directory
\* of the first is gone, the directory of the second holds the generated
\* source.
C17_Witness ==
  /\ Len(wrap_calls) = 2
  /\ PastSetup(wrap_calls[1]) /\ PastSetup(wrap_calls[2])
  /\ wrap_calls[1].filepath = NoFilepath
  /\ wrap_calls[1].events[1].op = "mkdtemp"
  /\ ExitPath(wrap_calls[1]) = "build failure"
  /\ wrap_calls[1].workdir \notin DOMAIN dirs
  /\ wrap_calls[2].filepath = "build"
  /\ ExitPath(wrap_calls[2]) = "load failure"
  /\ DOMAIN dirs = {"home", "build"}
  /\ GeneratedFile(wrap_calls[2]) \in DOMAIN dirs["build"]

\* C18 as stated: every wrap_code attempt increases the module counter by
\* exactly 1, whether it returns a callable or fails at working-directory
\* setup, generation, file preparation, build, load or symbol lookup; the
\* counter never decreases and nothing else changes it.
C18_CounterEveryAttempt ==
  [][/\ WrapStep => module_counter' = module_counter + 1
     /\ module_counter' >= module_counter
     /\ module_counter' # module_counter => WrapStep]_vars

\* C18, amended: every wrap_code attempt that gets past the set-up of its
\* working directory increases the module counter by exactly 1, whether it
\* returns a callable or fails at generation, file preparation, build,
\* load or symbol lookup; an attempt that fails while its working
\* directory is set up leaves the counter as it is; the counter never
\* decreases and nothing else changes it.
C18_CounterPastSetup ==
  [][/\ WrapStep =>
          module_counter' =
            (IF PastSetup(wrap_calls'[Len(wrap_calls')])
             THEN module_counter + 1 ELSE module_counter)
     /\ module_counter' >= module_counter
     /\ module_counter' # module_counter => WrapStep]_vars

\* An attempt failed at the set-up of its directory and the next one at
\* the build: the counter stands at 1.
C18_Witness ==
  /\ Len(wrap_calls) = 2
  /\ ~PastSetup(wrap_calls[1]) /\ wrap_calls[1].error.type = "OSError"
  /\ PastSetup(wrap_calls[2]) /\ ExitPath(wrap_calls[2]) = "build failure"
  /\ wrap_calls[1].counter = 0 /\ wrap_calls[2].counter = 0
  /\ module_counter = 1

\* The names a call is to use, from the counter value it started with
FileNameOf(c) == "wrapped_code_" \o ToString(c.counter)

ModuleNameOf(c) == "wrapper_module_" \o ToString(c.counter)

\* The steps of a call in which a module or file name is used
NamedOps == {"generate", "prepare", "build", "import"}

\* Every name the call used in generation, file preparation, the build
\* command and the module load is the file or module name of its counter
OneCounter(c) ==
  \A k \in 1..Len(c.events) :
    c.events[k].op \in NamedOps =>
      /\ c.events[k].name =
           (IF c.events[k].op \in {"build", "import"} \/ c.wrapper = "DummyWrapper"
            THEN ModuleNameOf(c) ELSE FileNameOf(c))
      /\ c.events[k].op = "prepare" =>
           \A n \in 1..Len(c.events[k].detail) :
             c.events[k].detail[n] = ModuleNameOf(c)
      /\ (c.events[k].op = "build" /\ c.wrapper = "F2PyCodeWrapper") =>
           /\ c.events[k].detail[6] = ModuleNameOf(c)
           /\ c.events[k].detail[7] = FileNameOf(c) \o ".f90"

\* The call used no name at all
UsedNoName(c) == \A k \in 1..Len(c.events) : c.events[k].op \notin NamedOps

\* C19: of the wrap_code calls made one after another in a process, by
\* any wrappers and backends and however they ended, no two use the same
\* module name or the same generated source file name, and within a call
\* the names used for generation, file preparation, the build command and
\* the module load all carry one counter value.
C19_UniqueNames ==
  /\ \A i \in 1..Len(wrap_calls) :
       IF PastSetup(wrap_calls[i]) THEN OneCounter(wrap_calls[i])
       ELSE UsedNoName(wrap_calls[i])
  /\ \A i, j \in 1..Len(wrap_calls) :
       (i < j /\ PastSetup(wrap_calls[i]) /\ PastSetup(wrap_calls[j])) =>
         /\ ModuleNameOf(wrap_calls[i]) # ModuleNameOf(wrap_calls[j])
         /\ FileNameOf(wrap_calls[i]) # FileNameOf(wrap_calls[j])
         /\ GeneratedFile(wrap_calls[i]) # GeneratedFile(wrap_calls[j])
         /\ \A k \in 1..Len(wrap_calls[i].events), n \in 1..Len(wrap_calls[j].events) :
              (wrap_calls[i].events[k].op \in NamedOps
               /\ wrap_calls[j].events[n].op \in NamedOps)
                => wrap_calls[i].events[k].name # wrap_calls[j].events[n].name

\* A ufunc wrapper failed to load its module and an f2py wrapper then
\* built and loaded one, both in the caller's directory: each used the
\* names of its own counter value.
C19_Witness ==
  /\ Len(wrap_calls) = 2
  /\ wrap_calls[1].wrapper = "UfuncifyCodeWrapper"
  /\ wrap_calls[2].wrapper = "F2PyCodeWrapper"
  /\ wrap_calls[1].filepath = "build" /\ wrap_calls[2].filepath = "build"
  /\ ExitPath(wrap_calls[1]) = "load failure"
  /\ ExitPath(wrap_calls[2]) = "success"
  /\ \E k \in 1..Len(wrap_calls[1].events) :
       wrap_calls[1].events[k] = Event("import", "wrapper_module_0", <<>>)
  /\ \E k \in 1..Len(wrap_calls[2].events) :
       wrap_calls[2].events[k] = Event("import", "wrapper_module_1", <<>>)
  /\ {GeneratedFile(wrap_calls[1]), GeneratedFile(wrap_calls[2])}
       \subseteq DOMAIN dirs["build"]

\* ---------------------------------------------- CodeWrapper._process_files
\* The events of one kind of a call
EventsOf(c, op) == SelectSeq(c.events, LAMBDA e : e.op = op)

\* The build command of the call exited with a status other than 0
BuildFailed(c) ==
  PastSetup(c) /\ EventsOf(c, "build") # <<>> /\ c.env.status # 0

\* C20: when the external build command exits non-zero, wrap_code fails
\* with a CodeWrapError whose message holds every token of the command
\* line that was run (the backend's command followed by the caller's
\* flags, in order) and the captured output; the build is run exactly
\* once, no module load is attempted, and the error reaches the caller.
C20_BuildFailure ==
  \A i \in 1..Len(wrap_calls) :
    BuildFailed(wrap_calls[i]) =>
      /\ Len(EventsOf(wrap_calls[i], "build")) = 1
      /\ EventsOf(wrap_calls[i], "build")[1].detail
           = command(wrap_calls[i].wrapper, wrap_calls[i].counter)
             \o wrap_calls[i].flags
      /\ wrap_calls[i].error.type = "CodeWrapError"
      /\ wrap_calls[i].error.names
           = EventsOf(wrap_calls[i], "build")[1].detail \o wrap_calls[i].env.output
      /\ EventsOf(wrap_calls[i], "import") = <<>>
      /\ EventsOf(wrap_calls[i], "lookup") = <<>>
      /\ ~wrap_calls[i].returned

\* The f2py build of a wrapper constructed with a flag failed.
C20_Witness ==
  /\ Len(wrap_calls) >= 1
  /\ BuildFailed(LastCall)
  /\ LastCall.wrapper = "F2PyCodeWrapper"
  /\ LastCall.flags = <<"--quiet">>
  /\ LastCall.error.type = "CodeWrapError"
  /\ LastCall.error.names[Len(LastCall.error.names) - 1] = "--quiet"
  /\ LastCall.error.names[Len(LastCall.error.names)] = "error: build failed"

\* C21: two wrap_code calls issued from different threads are kept apart
\* (the claim says: by one global lock).  When both are over, each has
\* generated, built and loaded under one module name, which is not the
\* other's; each call's files were written and built in its own working
\* directory; and the counter is 2 higher than at the start.
Over(t) == threads[t].pc \in {"returned", "raised"}

NumbersOf(t) == {threads[t].events[i].detail[2] : i \in DOMAIN threads[t].events}

PlacesOf(t) == {threads[t].events[i].detail[1] : i \in DOMAIN threads[t].events}

C21_ConcurrentCallsIsolated ==
  (\A t \in Threads : Over(t)) =>
    /\ \A t \in Threads :
         /\ threads[t].pc = "returned"
         /\ Cardinality(NumbersOf(t)) = 1
         /\ PlacesOf(t) = {threads[t].workdir}
    /\ \A t, u \in Threads : t # u => NumbersOf(t) \cap NumbersOf(u) = {}
    /\ module_counter = NumThreads

\* The same calls one after the other do stay apart
C21_OneAtATime ==
  /\ \A t \in Threads : Over(t) /\ threads[t].pc = "returned"
  /\ \A t \in Threads : Cardinality(NumbersOf(t)) = 1
                          /\ PlacesOf(t) = {threads[t].workdir}
  /\ module_counter = NumThreads

\* C22: the call signature DummyWrapper records for the wrapped callable.
\* As stated: the args attribute lists exactly the InputArguments in
\* their declared order, and every OutputArgument and InOutArgument is
\* left out of it and listed in returns.
DummyCall(c) == c.wrapper = "DummyWrapper" /\ c.filepath # NoFilepath /\ PastSetup(c)

\* The module file a DummyWrapper call left in its directory
DummyModule(c) == dirs[c.workdir][GeneratedFile(c)]

Wrapped_routine(c) == c.routines[Len(c.routines)]

NamesOfKind(r, kinds) ==
  [i \in DOMAIN SelectSeq(r.arguments, LAMBDA a : a.kind \in kinds) |->
     str(SelectSeq(r.arguments, LAMBDA a : a.kind \in kinds)[i].name)]

Items(seq) == {seq[i] : i \in DOMAIN seq}

C22_SignatureInputsOnly ==
  (wrap_calls # <<>> /\ DummyCall(LastCall)) =>
    /\ DummyModule(LastCall)[2].text
         = NamesOfKind(Wrapped_routine(LastCall), {"InputArgument"})
    /\ Items(NamesOfKind(Wrapped_routine(LastCall),
                         {"OutputArgument", "InOutArgument"}))
         \cap Items(DummyModule(LastCall)[2].text) = {}
    /\ Items(NamesOfKind(Wrapped_routine(LastCall),
                         {"OutputArgument", "InOutArgument"}))
         \subseteq Items(DummyModule(LastCall)[3].text)

\* C22, amended: args lists the InputArguments and the InOutArguments in
\* their declared order, and no OutputArgument; returns lists the
\* OutputArguments and InOutArguments in their declared order, then
\* 'nameless' once for every Result.
C22_SignatureKeepsInOut ==
  (wrap_calls # <<>> /\ DummyCall(LastCall)) =>
    /\ DummyModule(LastCall)[2].seg = "args"
    /\ DummyModule(LastCall)[2].text
         = NamesOfKind(Wrapped_routine(LastCall), {"InputArgument", "InOutArgument"})
    /\ DummyModule(LastCall)[3].seg = "returns"
    /\ DummyModule(LastCall)[3].text
         = NamesOfKind(Wrapped_routine(LastCall), {"OutputArgument", "InOutArgument"})
           \o [i \in 1..Len(Wrapped_routine(LastCall).results) |-> "nameless"]

\* A routine with an input, then an in-out argument and a return value
\* was wrapped: the in-out argument is in args and in returns
C22_Witness ==
  /\ wrap_calls # <<>>
  /\ DummyCall(LastCall)
  /\ Len(Wrapped_routine(LastCall).arguments) = 2
  /\ Wrapped_routine(LastCall).arguments[1].kind = "InputArgument"
  /\ Wrapped_routine(LastCall).arguments[2].kind = "InOutArgument"
  /\ Len(Wrapped_routine(LastCall).results) = 1
  /\ Len(DummyModule(LastCall)[2].text) = 2
  /\ DummyModule(LastCall)[3].text
       = <<DummyModule(LastCall)[2].text[2], "nameless">>

\* C23: for every routine the C backend emits, the interface file holds
\* the routine's prototype closed by a semicolon, and the implementation
\* file opens the routine's definition with that same prototype, nothing
\* added, before the body; the routines come in the same order in both.
InterfaceFile == Artifact(2)

C_written == write_call.n > 0 /\ write_call.error = NoError /\ write_call.gen.language = "C"

PrototypeOf(i) == get_prototype(write_call.routines[i]).text

\* The routine indices in the order in which a file's lines of one
\* segment come
RoutineOrder(f, seg) ==
  [k \in DOMAIN SelectSeq(f, LAMBDA l : l.seg = seg) |->
     SelectSeq(f, LAMBDA l : l.seg = seg)[k].routine]

C23_SamePrototypeBothFiles ==
  C_written =>
    /\ \A i \in 1..Len(write_call.routines) :
         /\ Segment(InterfaceFile, i, "prototype")
              = <<Line("prototype", i, PrototypeOf(i) \o <<";">>)>>
         /\ Segment(CodeFile, i, "opening")
              = <<Line("opening", i, PrototypeOf(i) \o <<"{">>)>>
         /\ FirstOf(CodeFile, i, "opening") < FirstOf(CodeFile, i, "body")
    /\ RoutineOrder(InterfaceFile, "prototype") = RoutineOrder(CodeFile, "opening")

\* What the two files do agree on: the definition's opening is the
\* interface's prototype behind the words `static inline`
C23_PrototypeBehindStaticInline ==
  C_written =>
    /\ \A i \in 1..Len(write_call.routines) :
         /\ Segment(InterfaceFile, i, "prototype")
              = <<Line("prototype", i, PrototypeOf(i) \o <<";">>)>>
         /\ Segment(CodeFile, i, "opening")
              = <<Line("opening", i,
                       <<"static", "inline">> \o PrototypeOf(i) \o <<"{">>)>>
         /\ FirstOf(CodeFile, i, "opening") < FirstOf(CodeFile, i, "body")
    /\ RoutineOrder(InterfaceFile, "prototype") = RoutineOrder(CodeFile, "opening")
    /\ RoutineOrder(CodeFile, "opening")
         = [i \in 1..Len(write_call.routines) |-> i]

\* C24: classifying the same ordered expression set twice with the same
\* explicit ordering gives structurally equal Routines (the same outcome,
\* arguments with their names, kinds, dimensions and order, results and
\* local variables), also when an array symbol occurs with more than one
\* shape.
Twice == Len(classified) = 2

ShapesOf(atoms, label) == {a[2] : a \in {b \in atoms : b[1] = label}}

ManyShaped(c) ==
  {l \in {a[1] : a \in c.atoms} : Cardinality(ShapesOf(c.atoms, l)) > 1}

InputNames(c) ==
  {c.built.routine.arguments[i].name :
     i \in {j \in DOMAIN c.built.routine.arguments :
              c.built.routine.arguments[j].kind = "InputArgument"}}

LastShape(order, label) ==
  order[CHOOSE i \in DOMAIN order :
          /\ order[i][1] = label
          /\ \A j \in DOMAIN order : order[j][1] = label => j <= i][2]

Undimensioned(args, labels) ==
  [i \in DOMAIN args |->
     IF args[i].kind = "InputArgument" /\ args[i].name \in labels
     THEN [args[i] EXCEPT !.dimensions = 0] ELSE args[i]]

StepRank(op) ==
  CASE op = "mkdtemp" -> 0
    [] op = "generate" -> 1
    [] op = "prepare" -> 2
    [] op = "build" -> 3
    [] op = "import" -> 4
    [] op = "counter" -> 5
    [] op = "rmtree" -> 6
    [] op = "lookup" -> 7

Ops(c) == [k \in DOMAIN c.events |-> c.events[k].op]

\* The working steps a call that ended on the given path has run
StepsRun(c) ==
  CASE ExitPath(c) = "generation failure" -> {"generate"}
    [] ExitPath(c) = "preparation failure" -> {"generate", "prepare"}
    [] ExitPath(c) = "build failure" -> {"generate", "prepare", "build"}
    [] ExitPath(c) = "load failure" -> {"generate", "prepare", "build", "import"}
    [] OTHER -> {"generate", "prepare", "build", "import", "lookup"}

C25_StepOrder ==
  \A i \in 1..Len(wrap_calls) :
    PastSetup(wrap_calls[i]) =>
      /\ \A k \in 1..(Len(wrap_calls[i].events) - 1) :
           StepRank(Ops(wrap_calls[i])[k]) < StepRank(Ops(wrap_calls[i])[k + 1])
      /\ Items(Ops(wrap_calls[i])) \ {"mkdtemp", "counter", "rmtree"}
           \subseteq StepsRun(wrap_calls[i])
      /\ EventsOf(wrap_calls[i], "generate") # <<>>
      /\ EventsOf(wrap_calls[i], "counter") # <<>>
      /\ (wrap_calls[i].filepath = NoFilepath)
           <=> (EventsOf(wrap_calls[i], "rmtree") # <<>>)
      /\ (EventsOf(wrap_calls[i], "build") # <<>>)
           => ExitPath(wrap_calls[i]) \notin {"generation failure",
                                              "preparation failure"}
      /\ (EventsOf(wrap_calls[i], "import") # <<>>)
           => \/ wrap_calls[i].wrapper = "DummyWrapper"
              \/ /\ EventsOf(wrap_calls[i], "build") # <<>>
                 /\ wrap_calls[i].env.status = 0
      /\ (EventsOf(wrap_calls[i], "lookup") # <<>>)
           <=> ExitPath(wrap_calls[i]) \in {"success", "lookup failure"}

\* A call whose file preparation failed: nothing was built or loaded, and
\* the cleanup ran; and before it a call that ran every step
C25_Witness ==
  /\ Len(wrap_calls) = 2
  /\ Ops(wrap_calls[1])
       = <<"mkdtemp", "generate", "prepare", "build", "import", "counter",
           "rmtree", "lookup">>
  /\ wrap_calls[1].returned
  /\ ExitPath(LastCall) = "preparation failure"
  /\ Ops(LastCall) = <<"mkdtemp", "generate", "prepare", "counter", "rmtree">>

\* C26: in any sequence of wrap_code calls, what one call emits is that
\* call's helper routines followed by its main routine; nothing passed to
\* an earlier call is emitted again, and the number of routines written
\* does not grow from call to call.  (Every call of the model passes no
\* helpers, or an empty list of them: a call emits one routine.)
C26_EmitsOwnRoutinesOnly ==
  \A i \in 1..Len(wrap_calls) :
    PastSetup(wrap_calls[i]) =>
      /\ Len(wrap_calls[i].routines) = 1
      /\ \A j \in 1..(i - 1) :
           PastSetup(wrap_calls[j]) =>
             Len(wrap_calls[i].routines) <= Len(wrap_calls[j].routines)

\* C27: after wrap_code has returned or raised, on every exit path, the
\* working directory of the process is the one it was before the call and
\* the directory the call added to sys.path is no longer on it, so that
\* the call leaves no process-wide state changed other than the module
\* counter.
C27_NoGlobalChange ==
  [][WrapStep => /\ cwd' = cwd
                 /\ sys_path' = sys_path
                 /\ default_helpers' = default_helpers]_vars

\* The part of it that holds on every exit path: the working directory
\* and sys.path are as before the call
C27_CwdAndPathRestored ==
  [][WrapStep => cwd' = cwd /\ sys_path' = sys_path]_vars

\* C28: datatype(name) and operator(symbol) return the registered
\* singleton for every string whose lower-cased form is a key of the
\* registry and raise ValueError for every other string; no string that
\* passes the membership check leads to another error.
RegistryOf(fn) == IF fn = "datatype" THEN dtype_registry ELSE op_registry

C28_AcceptedOrValueError ==
  (ast_call.fn \in {"datatype", "operator"}) =>
    IF str_lower(ast_call.given[1]) \in DOMAIN RegistryOf(ast_call.fn)
    THEN /\ ast_call.error = NoError
         /\ ast_call.value = RegistryOf(ast_call.fn)[str_lower(ast_call.given[1])]
    ELSE ast_call.error.type = "ValueError"

\* C29: for a Module constructed from (name, body), Module.name is the
\* symbol of the given name and Module.body the tuple of the body
\* elements given, so that a Module rebuilt from its name and body
\* accessors is equal to it.
C29_ModuleAccessors ==
  (ast_call.fn = "Module" /\ ast_call.error = NoError) =>
    /\ Module_name(ast_call.value) = Symbol(ast_call.given[1].name)
    /\ Module_body(ast_call.value) = Tuple(ast_call.given[2].items)
    /\ Module_new(Module_name(ast_call.value), Module_body(ast_call.value))
         = Returns(ast_call.value)

\* C30: in the Fortran argument declarations every argument of the
\* routine is declared exactly once, with intent(in) for an InputArgument,
\* intent(inout) for an InOutArgument and intent(out) for an
\* OutputArgument; the declarations of the scalars all come before those
\* of the arrays, each group in the routine's argument order; and the
\* routine closes with 'end function' exactly when it was opened as a
\* function (it has one Result), with 'end subroutine' otherwise.
FortranCode == dump.text.lines

FortranDumped ==
  pc = "dumped" /\ dump.fn = "dump_code" /\ dump.text.error = NoError

IntentOf(kind) ==
  CASE kind = "InputArgument" -> "intent(in)"
    [] kind = "InOutArgument" -> "intent(inout)"
    [] kind = "OutputArgument" -> "intent(out)"

IsArray(a) == a.dimensions # 0

ScalarsThenArrays(args) ==
  SelectSeq(args, LAMBDA a : ~IsArray(a)) \o SelectSeq(args, IsArray)

OpenedAsFunction == "function" \in Items(Segment(FortranCode, 1, "opening")[1].text)

C30_FortranDeclarations ==
  FortranDumped =>
    /\ Len(Segment(FortranCode, 1, "arguments")) = Len(routine.arguments)
    /\ \A k \in 1..Len(routine.arguments) :
         LET a == ScalarsThenArrays(routine.arguments)[k]
             text == Segment(FortranCode, 1, "arguments")[k].text
         IN /\ text[Len(text)] = str(a.name)
            /\ text[1] = get_datatype(a, "fortran")
            /\ text[2] = IntentOf(a.kind)
            /\ ("dimension" \in Items(text)) <=> IsArray(a)
    /\ OpenedAsFunction <=> Len(routine.results) = 1
    /\ Segment(FortranCode, 1, "ending")
         = <<Line("ending", 1, <<IF OpenedAsFunction THEN "end function"
                                ELSE "end subroutine">>)>>

\* A subroutine whose first argument is an output array and whose second
\* is an in-out scalar: the scalar is declared first
C30_Witness ==
  /\ FortranDumped
  /\ Len(routine.arguments) = 2
  /\ routine.arguments[1].kind = "OutputArgument" /\ IsArray(routine.arguments[1])
  /\ routine.arguments[2].kind = "InOutArgument" /\ ~IsArray(routine.arguments[2])
  /\ Segment(FortranCode, 1, "arguments")[1].text[2] = "intent(inout)"
  /\ Segment(FortranCode, 1, "arguments")[2].text[2] = "intent(out)"
  /\ Segment(FortranCode, 1, "ending")[1].text = <<"end subroutine">>

====
